---------------------------- MODULE Spec2Model ----------------------------
(***************************************************************************)
(* Haven messaging application: the hybrid envelope encryption of          *)
(* lib/crypto (encryptMessage, decryptMessage and their base64 helpers)    *)
(* and the send path of ChatContext (sendMessage).                         *)
(*                                                                         *)
(* Strings are sequences of UTF-16 code units, buffers are sequences of    *)
(* bytes.  The Web Crypto primitives are idealised: AES-GCM and RSA-OAEP   *)
(* decrypt exactly what was encrypted under the same key (and nonce), the  *)
(* bookkeeping of what was encrypted being the variables gcmLog and        *)
(* oaepLog; everything else fails with an OperationError.                  *)
(***************************************************************************)
EXTENDS Integers, Sequences, FiniteSets, TLC

(***************************************************************************)
(* Bounds of the model.                                                    *)
(***************************************************************************)
MaxTextLen == 2
MaxSendLen == 1
MaxFlipBit == 7

(***************************************************************************)
(* Program constants.                                                      *)
(***************************************************************************)
ModulusBits == 2048
AesKeyBits == 256
IvBytes == 12
TagBytes == 16
HashBytes == 32

ModulusBytes == ModulusBits \div 8
AesKeyBytes == AesKeyBits \div 8

(***************************************************************************)
(* Identities: the ids of the profiles table, and the empty string that    *)
(* fetchMessages passes when there is no signed-in user.                   *)
(***************************************************************************)
Users == {"alice", "bob", "carol"}
NoUser == ""
UserIds == Users \cup {NoUser}

(***************************************************************************)
(* Plaintexts: JavaScript strings over the code units 'A' (1 byte in       *)
(* UTF-8), U+FEFF (3 bytes, the byte order mark), and the surrogates       *)
(* U+D83D and U+DE00, which form U+1F600 (4 bytes) when paired in that     *)
(* order and are unpaired otherwise.                                       *)
(***************************************************************************)
CodeUnits == {65, 65279, 55357, 56832}
Plaintexts == UNION {[1..n -> CodeUnits] : n \in 0..MaxTextLen}

Pow2(n) == 2 ^ n

(***************************************************************************)
(* TextEncoder.encode: the string is converted to scalar values (a         *)
(* surrogate that is not part of a pair becomes U+FFFD) and each scalar    *)
(* value is written in UTF-8.                                              *)
(***************************************************************************)
IsHighSurrogate(c) == c >= 55296 /\ c <= 56319
IsLowSurrogate(c) == c >= 56320 /\ c <= 57343
IsSurrogate(c) == c >= 55296 /\ c <= 57343

Utf8Bytes(cp) ==
  IF cp < 128 THEN <<cp>>
  ELSE IF cp < 2048 THEN <<192 + (cp \div 64), 128 + (cp % 64)>>
  ELSE IF cp < 65536
    THEN <<224 + (cp \div 4096), 128 + ((cp \div 64) % 64), 128 + (cp % 64)>>
  ELSE <<240 + (cp \div 262144), 128 + ((cp \div 4096) % 64),
         128 + ((cp \div 64) % 64), 128 + (cp % 64)>>

RECURSIVE EncodeFrom(_, _)
EncodeFrom(s, i) ==
  IF i > Len(s) THEN <<>>
  ELSE IF IsHighSurrogate(s[i]) /\ i < Len(s) /\ IsLowSurrogate(s[i + 1])
    THEN Utf8Bytes(65536 + (s[i] - 55296) * 1024 + (s[i + 1] - 56320))
           \o EncodeFrom(s, i + 2)
  ELSE IF IsSurrogate(s[i]) THEN Utf8Bytes(65533) \o EncodeFrom(s, i + 1)
  ELSE Utf8Bytes(s[i]) \o EncodeFrom(s, i + 1)

\* TextEncoder.encode, a long text in parts that split no surrogate pair.
RECURSIVE TextEncode(_)
TextEncode(text) ==
  IF Len(text) <= 32 THEN EncodeFrom(text, 1)
  ELSE LET n == IF IsHighSurrogate(text[32]) THEN 31 ELSE 32
       IN EncodeFrom(SubSeq(text, 1, n), 1)
            \o TextEncode(SubSeq(text, n + 1, Len(text)))

(***************************************************************************)
(* TextDecoder.decode with the default options (utf-8, fatal false,        *)
(* ignoreBOM false): a leading byte order mark is dropped, every           *)
(* ill-formed sequence becomes U+FFFD, scalar values above U+FFFF become   *)
(* a surrogate pair.                                                       *)
(***************************************************************************)
RECURSIVE DecodeFrom(_, _, _, _, _, _)
DecodeFrom(b, i, cp, needed, lower, upper) ==
  IF i > Len(b) THEN (IF needed # 0 THEN <<65533>> ELSE <<>>)
  ELSE IF needed = 0 THEN
    IF b[i] <= 127 THEN <<b[i]>> \o DecodeFrom(b, i + 1, 0, 0, 128, 191)
    ELSE IF b[i] >= 194 /\ b[i] <= 223
      THEN DecodeFrom(b, i + 1, b[i] - 192, 1, 128, 191)
    ELSE IF b[i] >= 224 /\ b[i] <= 239
      THEN DecodeFrom(b, i + 1, b[i] - 224, 2,
                      IF b[i] = 224 THEN 160 ELSE 128,
                      IF b[i] = 237 THEN 159 ELSE 191)
    ELSE IF b[i] >= 240 /\ b[i] <= 244
      THEN DecodeFrom(b, i + 1, b[i] - 240, 3,
                      IF b[i] = 240 THEN 144 ELSE 128,
                      IF b[i] = 244 THEN 143 ELSE 191)
    ELSE <<65533>> \o DecodeFrom(b, i + 1, 0, 0, 128, 191)
  ELSE IF b[i] < lower \/ b[i] > upper
    THEN <<65533>> \o DecodeFrom(b, i, 0, 0, 128, 191)
  ELSE IF needed = 1
    THEN <<cp * 64 + (b[i] - 128)>> \o DecodeFrom(b, i + 1, 0, 0, 128, 191)
  ELSE DecodeFrom(b, i + 1, cp * 64 + (b[i] - 128), needed - 1, 128, 191)

RECURSIVE ToCodeUnits(_, _)
ToCodeUnits(cps, i) ==
  IF i > Len(cps) THEN <<>>
  ELSE IF cps[i] >= 65536
    THEN <<55296 + ((cps[i] - 65536) \div 1024),
          56320 + ((cps[i] - 65536) % 1024)>>
           \o ToCodeUnits(cps, i + 1)
  ELSE <<cps[i]>> \o ToCodeUnits(cps, i + 1)

HasBom(b) == Len(b) >= 3 /\ b[1] = 239 /\ b[2] = 187 /\ b[3] = 191

TextDecode(b) ==
  ToCodeUnits(DecodeFrom(b, IF HasBom(b) THEN 4 ELSE 1, 0, 0, 128, 191), 1)

(***************************************************************************)
(* window.btoa and window.atob.  btoa is applied to binary strings (code   *)
(* units below 256) only.  atob is the forgiving base64 decode: ASCII      *)
(* whitespace is removed; up to two trailing '=' are removed when the      *)
(* length is a multiple of 4; a remaining length of 1 modulo 4 or a        *)
(* character outside the alphabet is an InvalidCharacterError; the bits    *)
(* left over after the last whole byte are discarded.                      *)
(***************************************************************************)
PadChar == 61

B64Char(v) ==
  IF v < 26 THEN 65 + v
  ELSE IF v < 52 THEN 97 + (v - 26)
  ELSE IF v < 62 THEN 48 + (v - 52)
  ELSE IF v = 62 THEN 43 ELSE 47

B64Value(c) ==
  IF c >= 65 /\ c <= 90 THEN c - 65
  ELSE IF c >= 97 /\ c <= 122 THEN c - 97 + 26
  ELSE IF c >= 48 /\ c <= 57 THEN c - 48 + 52
  ELSE IF c = 43 THEN 62
  ELSE IF c = 47 THEN 63 ELSE -1

IsAsciiWhitespace(c) == c \in {9, 10, 12, 13, 32}

ByteAt(b, i) == IF i <= Len(b) THEN b[i] ELSE 0

Btoa(b) ==
  LET n == Len(b)
      chars == 4 * ((n + 2) \div 3)
  IN SubSeq([j \in 1..chars |->
       LET g == 3 * ((j - 1) \div 4)
           k == (j - 1) % 4
           triple == ByteAt(b, g + 1) * 65536 + ByteAt(b, g + 2) * 256
                       + ByteAt(b, g + 3)
       IN IF k = 2 /\ g + 2 > n THEN PadChar
          ELSE IF k = 3 /\ g + 3 > n THEN PadChar
          ELSE B64Char((triple \div Pow2(6 * (3 - k))) % 64)], 1, chars)

StripPadding(s) ==
  IF Len(s) % 4 # 0 \/ Len(s) = 0 THEN s
  ELSE IF s[Len(s)] # PadChar THEN s
  ELSE IF s[Len(s) - 1] # PadChar THEN SubSeq(s, 1, Len(s) - 1)
  ELSE SubSeq(s, 1, Len(s) - 2)

\* The result of atob: [ok, value]; ok = FALSE is the InvalidCharacterError.
Atob(str) ==
  LET s == StripPadding(SelectSeq(str, LAMBDA c : ~IsAsciiWhitespace(c)))
  IN IF Len(s) % 4 = 1 \/ \E j \in 1..Len(s) : B64Value(s[j]) < 0
       THEN [ok |-> FALSE, value |-> <<>>]
       ELSE [ok |-> TRUE,
             value |-> SubSeq([m \in 1..((Len(s) * 6) \div 8) |->
                LET q == (8 * (m - 1)) \div 6
                    r == (8 * (m - 1)) % 6
                IN ((B64Value(s[q + 1]) * 64 + B64Value(s[q + 2]))
                      \div Pow2(4 - r)) % 256], 1, (Len(s) * 6) \div 8)]

\* arrayBufferToBase64: String.fromCharCode of every byte, then btoa.
arrayBufferToBase64(buffer) == Btoa(buffer)

\* base64ToArrayBuffer: atob, then charCodeAt of every character.
base64ToArrayBuffer(base64) == Atob(base64)


(***************************************************************************)
(* CryptoKey objects.  Every identity owns one RSA key pair, generated     *)
(* with ALGO_KEY_PAIR; a pair is named by a number.  A key that cannot     *)
(* wrap (no "encrypt" usage, or a modulus too short for OAEP with SHA-256  *)
(* to hold a 256-bit key) makes the RSA-OAEP encryption throw.             *)
(***************************************************************************)
PairOf == [u \in Users |->
             IF u = "alice" THEN 1 ELSE IF u = "bob" THEN 2 ELSE 3]

PublicKey(u) ==
  [alg |-> "RSA-OAEP", type |-> "public", pair |-> PairOf[u],
   usages |-> {"encrypt"}, modulusBytes |-> ModulusBytes]

PrivateKey(u) ==
  [alg |-> "RSA-OAEP", type |-> "private", pair |-> PairOf[u],
   usages |-> {"decrypt"}, modulusBytes |-> ModulusBytes]

\* A public key of a 512-bit pair: it imports, and cannot hold the session key.
ShortPublicKey(u) ==
  [alg |-> "RSA-OAEP", type |-> "public", pair |-> PairOf[u],
   usages |-> {"encrypt"}, modulusBytes |-> HashBytes * 2]

(***************************************************************************)
(* The random source.  One call of encryptMessage draws the session key,   *)
(* the nonce and one OAEP seed per recipient; rnd selects the stream of    *)
(* the call and k the draw within it.                                      *)
(***************************************************************************)
RandomStreams == {1, 2}

RandomBytes(n, rnd, k) ==
  SubSeq([i \in 1..n |-> (rnd * 83 + k * 41 + i * 11) % 256], 1, n)

(***************************************************************************)
(* Results of the operations that can throw: ok, the value returned, the   *)
(* name of the error thrown and the step that threw it.                    *)
(***************************************************************************)
Returned(v) == [ok |-> TRUE, value |-> v, error |-> "", at |-> ""]
Thrown(name, step) == [ok |-> FALSE, value |-> <<>>, error |-> name, at |-> step]

(***************************************************************************)
(* crypto.subtle.encrypt / decrypt for AES-GCM.  The ciphertext is the     *)
(* plaintext masked by a key stream, followed by a tag of TagBytes bytes.  *)
(* Decryption returns the plaintext of the logged encryption with this     *)
(* key, nonce and ciphertext, and fails with an OperationError when there  *)
(* is none: the tag does not verify.                                       *)
(***************************************************************************)
AesGcmCiphertext(raw, iv, pt) ==
  SubSeq([i \in 1..(Len(pt) + TagBytes) |->
            IF i <= Len(pt)
              THEN (pt[i] + ByteAt(raw, 1) + ByteAt(iv, 1) + 7 * i) % 256
              ELSE (ByteAt(raw, i - Len(pt)) + 3 * ByteAt(iv, 1 + (i % IvBytes))
                      + 5 * Len(pt) + i) % 256],
         1, Len(pt) + TagBytes)

AesGcmEntry(raw, iv, pt) ==
  [key |-> raw, iv |-> iv, pt |-> pt, ct |-> AesGcmCiphertext(raw, iv, pt)]

\* A decryption that does not bind the nonce: what tamper detection excludes.
AesGcmDecryptAnyIv(log, raw, iv, ct) ==
  IF \E e \in log : e.key = raw /\ e.ct = ct
    THEN Returned((CHOOSE e \in log : e.key = raw /\ e.ct = ct).pt)
    ELSE Thrown("OperationError", "aes-gcm")

AesGcmDecrypt(log, raw, iv, ct) ==
  IF \E e \in log : e.key = raw /\ e.iv = iv /\ e.ct = ct
    THEN Returned((CHOOSE e \in log : e.key = raw /\ e.iv = iv /\ e.ct = ct).pt)
    ELSE Thrown("OperationError", "aes-gcm")

(***************************************************************************)
(* crypto.subtle.encrypt / decrypt for RSA-OAEP.  Encryption throws for a  *)
(* key without the "encrypt" usage and for data longer than the modulus    *)
(* allows; the ciphertext has the length of the modulus.  Decryption       *)
(* returns the data of the logged encryption under the same pair with      *)
(* this ciphertext, and fails with an OperationError when there is none.   *)
(***************************************************************************)
RsaOaepCiphertext(key, data, seed) ==
  SubSeq([i \in 1..key.modulusBytes |->
            IF i = 1 THEN key.pair
            ELSE IF i = 2 THEN ByteAt(seed, 1)
            ELSE (ByteAt(data, 1 + (i % AesKeyBytes))
                    + ByteAt(seed, 1 + (i % HashBytes))
                    + 59 * key.pair + i) % 256],
         1, key.modulusBytes)

RsaOaepEncrypt(key, data, seed) ==
  IF key.alg # "RSA-OAEP" \/ "encrypt" \notin key.usages
    THEN Thrown("InvalidAccessError", "rsa-oaep")
  ELSE IF Len(data) > key.modulusBytes - 2 * HashBytes - 2
    THEN Thrown("OperationError", "rsa-oaep")
  ELSE Returned(RsaOaepCiphertext(key, data, seed))

RsaOaepEntry(key, data, seed) ==
  [pair |-> key.pair, data |-> data, ct |-> RsaOaepCiphertext(key, data, seed)]

\* A decryption that succeeds under any private key: what key isolation
\* excludes.
RsaOaepDecryptAnyPair(log, key, ct) ==
  IF \E e \in log : e.ct = ct
    THEN Returned((CHOOSE e \in log : e.ct = ct).data)
    ELSE Thrown("OperationError", "rsa-oaep")

RsaOaepDecrypt(log, key, ct) ==
  IF key.alg # "RSA-OAEP" \/ "decrypt" \notin key.usages
    THEN Thrown("InvalidAccessError", "rsa-oaep")
  ELSE IF \E e \in log : e.pair = key.pair /\ e.ct = ct
    THEN Returned((CHOOSE e \in log : e.pair = key.pair /\ e.ct = ct).data)
  ELSE Thrown("OperationError", "rsa-oaep")

(***************************************************************************)
(* JavaScript values of the encryptedKeys field: an object mapping         *)
(* identities to strings (current shape) or a single string (legacy).      *)
(***************************************************************************)
JsObject(m) == [type |-> "object", map |-> m, str |-> <<>>]
JsString(s) == [type |-> "string", map |-> <<>>, str |-> s]
JsUndefined == [type |-> "undefined", map |-> <<>>, str |-> <<>>]

\* a || b
Truthy(v) == v.type = "object" \/ (v.type = "string" /\ v.str # <<>>)
JsOr(a, b) == IF Truthy(a) THEN a ELSE b

\* An assignment that keeps only the first entry of an object.
WithFirstEntryOnly(obj, key, value) ==
  IF DOMAIN obj = {} THEN [k \in {key} |-> value] ELSE obj

\* obj[key] = value
WithEntry(obj, key, value) ==
  [k \in DOMAIN obj \cup {key} |-> IF k = key THEN value ELSE obj[k]]

\* Object.entries: the keys in one fixed order.
ObjectEntries(obj) ==
  CHOOSE s \in [1..Cardinality(DOMAIN obj) -> DOMAIN obj] :
    \A i, j \in DOMAIN s : i # j => s[i] # s[j]

(***************************************************************************)
(* encryptMessage, step 4: the loop that encrypts the raw session key for  *)
(* each recipient in turn.  The first encryption that throws ends the      *)
(* call.  The result carries the RSA-OAEP encryptions done so far.         *)
(***************************************************************************)
\* A loop that leaves out the recipients whose encryption throws: what the
\* absence of partial envelopes excludes.
RECURSIVE WrapLoopSkippingFailures(_, _, _, _, _, _, _)
WrapLoopSkippingFailures(recipientPublicKeys, entries, i, rawSessionKey, rnd, encryptedKeys, done) ==
  IF i > Len(entries)
    THEN [result |-> Returned(encryptedKeys), oaep |-> done]
  ELSE LET userId == entries[i]
           publicKey == recipientPublicKeys[userId]
           seed == RandomBytes(HashBytes, rnd, 2 + i)
           encryptedKeyBuffer == RsaOaepEncrypt(publicKey, rawSessionKey, seed)
       IN IF ~encryptedKeyBuffer.ok
            THEN WrapLoopSkippingFailures(recipientPublicKeys, entries, i + 1,
                   rawSessionKey, rnd, encryptedKeys, done)
            ELSE WrapLoopSkippingFailures(recipientPublicKeys, entries, i + 1,
                   rawSessionKey, rnd,
                   WithEntry(encryptedKeys, userId,
                             arrayBufferToBase64(encryptedKeyBuffer.value)),
                   done \cup {RsaOaepEntry(publicKey, rawSessionKey, seed)})

RECURSIVE WrapLoop(_, _, _, _, _, _, _)
WrapLoop(recipientPublicKeys, entries, i, rawSessionKey, rnd, encryptedKeys, done) ==
  IF i > Len(entries)
    THEN [result |-> Returned(encryptedKeys), oaep |-> done]
  ELSE LET userId == entries[i]
           publicKey == recipientPublicKeys[userId]
           seed == RandomBytes(HashBytes, rnd, 2 + i)
           encryptedKeyBuffer == RsaOaepEncrypt(publicKey, rawSessionKey, seed)
       IN IF ~encryptedKeyBuffer.ok
            THEN [result |-> encryptedKeyBuffer, oaep |-> done]
            ELSE WrapLoop(recipientPublicKeys, entries, i + 1, rawSessionKey, rnd,
                   WithEntry(encryptedKeys, userId,
                             arrayBufferToBase64(encryptedKeyBuffer.value)),
                   done \cup {RsaOaepEntry(publicKey, rawSessionKey, seed)})

(***************************************************************************)
(* encryptMessage(text, recipientPublicKeys), with the random draws of     *)
(* the call.  EncryptCall gives the result (the envelope returned or the   *)
(* error thrown) and what the call encrypted.                              *)
(***************************************************************************)
EncryptCall(text, recipientPublicKeys, rnd) ==
  LET encodedText == TextEncode(text)
      rawSessionKey == RandomBytes(AesKeyBytes, rnd, 1)
      iv == RandomBytes(IvBytes, rnd, 2)
      encryptedContentBuffer == AesGcmCiphertext(rawSessionKey, iv, encodedText)
      loop == WrapLoop(recipientPublicKeys, ObjectEntries(recipientPublicKeys), 1,
                       rawSessionKey, rnd, <<>>, {})
  IN [result |->
        IF ~loop.result.ok THEN loop.result
        ELSE Returned(
               [encryptedContent |-> arrayBufferToBase64(encryptedContentBuffer),
                encryptedKeys |-> JsObject(loop.result.value),
                iv |-> arrayBufferToBase64(iv)]),
      gcm |-> {AesGcmEntry(rawSessionKey, iv, encodedText)},
      oaep |-> loop.oaep]

encryptMessage(text, recipientPublicKeys, rnd) ==
  EncryptCall(text, recipientPublicKeys, rnd).result

(***************************************************************************)
(* decryptMessage(encryptedContent, encryptedKeys, iv, privateKey, userId) *)
(* against what has been encrypted so far (gcm, oaep).                     *)
(***************************************************************************)
\* A lookup that falls back to the entry of another recipient: what
\* missing-key isolation excludes.
SelectAnyEncryptedKey(encryptedKeys, userId) ==
  IF encryptedKeys.type = "string" THEN Returned(encryptedKeys.str)
  ELSE IF encryptedKeys.type = "undefined" THEN Thrown("TypeError", "lookup")
  ELSE IF userId \in DOMAIN encryptedKeys.map
    THEN Returned(encryptedKeys.map[userId])
  ELSE IF DOMAIN encryptedKeys.map = {}
    THEN Thrown("Error: No encrypted key found for user", "lookup")
  ELSE Returned(encryptedKeys.map[CHOOSE u \in DOMAIN encryptedKeys.map : TRUE])

\* A lookup in which the identity passed decides how a string is handled:
\* without an identity a string is not taken as the wrapped key.
SelectByIdentity(encryptedKeys, userId) ==
  IF encryptedKeys.type = "string" /\ userId # NoUser
    THEN Returned(encryptedKeys.str)
  ELSE IF encryptedKeys.type = "undefined" THEN Thrown("TypeError", "lookup")
  ELSE IF userId \notin DOMAIN encryptedKeys.map
            \/ encryptedKeys.map[userId] = <<>>
    THEN Thrown("Error: No encrypted key found for user", "lookup")
  ELSE Returned(encryptedKeys.map[userId])

\* Lines 112-122: the wrapped key of the caller.
SelectEncryptedKey(encryptedKeys, userId) ==
  IF encryptedKeys.type = "string" THEN Returned(encryptedKeys.str)
  ELSE IF encryptedKeys.type = "undefined" THEN Thrown("TypeError", "lookup")
  ELSE IF userId \notin DOMAIN encryptedKeys.map
            \/ encryptedKeys.map[userId] = <<>>
    THEN Thrown("Error: No encrypted key found for user", "lookup")
  ELSE Returned(encryptedKeys.map[userId])

\* importKey("raw", ...) for AES-GCM accepts keys of 128, 192 and 256 bits.
ImportRawAesKey(raw) ==
  IF Len(raw) \in {16, 24, 32} THEN Returned(raw)
  ELSE Thrown("DataError", "importKey")

\* Lines 140-147: decrypt the content with the session key.
DecryptContent(gcm, sessionKey, iv, encryptedContent) ==
  LET ivBuffer == base64ToArrayBuffer(iv)
      contentBuffer == base64ToArrayBuffer(encryptedContent)
  IN IF ~ivBuffer.ok THEN Thrown("InvalidCharacterError", "atob-iv")
     ELSE IF ~contentBuffer.ok THEN Thrown("InvalidCharacterError", "atob-content")
     ELSE LET decryptedBuffer ==
                AesGcmDecrypt(gcm, sessionKey, ivBuffer.value, contentBuffer.value)
          IN IF ~decryptedBuffer.ok THEN decryptedBuffer
             ELSE Returned(TextDecode(decryptedBuffer.value))

decryptMessage(gcm, oaep, encryptedContent, encryptedKeys, iv, privateKey, userId) ==
  LET encryptedKeyStr == SelectEncryptedKey(encryptedKeys, userId)
  IN IF ~encryptedKeyStr.ok THEN encryptedKeyStr
     ELSE LET keyBuffer == base64ToArrayBuffer(encryptedKeyStr.value)
          IN IF ~keyBuffer.ok THEN Thrown("InvalidCharacterError", "atob-key")
             ELSE LET rawSessionKey == RsaOaepDecrypt(oaep, privateKey, keyBuffer.value)
                  IN IF ~rawSessionKey.ok THEN rawSessionKey
                     ELSE LET sessionKey == ImportRawAesKey(rawSessionKey.value)
                          IN IF ~sessionKey.ok THEN sessionKey
                             ELSE DecryptContent(gcm, sessionKey.value, iv,
                                                 encryptedContent)

(***************************************************************************)
(* exportKey and importKey: a key travels as the JSON text of its JWK.     *)
(* The public_key column of a profile is null, such a text, or any other   *)
(* text.                                                                   *)
(***************************************************************************)
NullKey == [kind |-> "null", type |-> "", pair |-> 0, modulusBytes |-> 0]
MalformedKey == [kind |-> "text", type |-> "", pair |-> 0, modulusBytes |-> 0]

exportKey(key) ==
  [kind |-> "jwk", type |-> key.type, pair |-> key.pair,
   modulusBytes |-> key.modulusBytes]

importKey(keyStr, type) ==
  IF keyStr.kind # "jwk" THEN Thrown("SyntaxError", "JSON.parse")
  ELSE IF keyStr.type # type THEN Thrown("SyntaxError", "importKey")
  ELSE Returned([alg |-> "RSA-OAEP", type |-> type, pair |-> keyStr.pair,
                 usages |-> IF type = "public" THEN {"encrypt"} ELSE {"decrypt"},
                 modulusBytes |-> keyStr.modulusBytes])

\* JSON.stringify of the envelope, the content column of a message.
JsonStringify(value) == [kind |-> "json", value |-> value]

(***************************************************************************)
(* sendMessage(content) of the signed-in user, lines 177-232, given what   *)
(* the two queries return and whether the store accepts the insert.        *)
(***************************************************************************)
SignedInUser == "alice"

NoEncryptCall == [result |-> Thrown("", ""), gcm |-> {}, oaep |-> {}]

SendResult(outcome, error, recipientIds, publicKeys, warned, encryption, row) ==
  [outcome |-> outcome, error |-> error, recipientIds |-> recipientIds,
   publicKeys |-> publicKeys, warned |-> warned, encryption |-> encryption,
   row |-> row]

NoRow == [sender_id |-> NoUser, content |-> JsonStringify(<<>>), content_type |-> ""]
NotSent == SendResult("none", "", {}, <<>>, FALSE, NoEncryptCall, NoRow)

\* A loop without the test of line 203: a profile without a key makes the
\* import throw, and the send with it.
RECURSIVE ImportLoopUnguarded(_, _, _, _)
ImportLoopUnguarded(profileRows, entries, i, publicKeys) ==
  IF i > Len(entries) THEN Returned(publicKeys)
  ELSE LET id == entries[i]
           key == importKey(profileRows[id], "public")
       IN IF ~key.ok THEN key
          ELSE ImportLoopUnguarded(profileRows, entries, i + 1,
                                   WithEntry(publicKeys, id, key.value))

\* Lines 201-207: import the public key of every profile that has one.
RECURSIVE ImportLoop(_, _, _, _)
ImportLoop(profileRows, entries, i, publicKeys) ==
  IF i > Len(entries) THEN Returned(publicKeys)
  ELSE LET id == entries[i]
           public_key == profileRows[id]
       IN IF public_key.kind = "null"
            THEN ImportLoop(profileRows, entries, i + 1, publicKeys)
            ELSE LET key == importKey(public_key, "public")
                 IN IF ~key.ok THEN key
                    ELSE ImportLoop(profileRows, entries, i + 1,
                           WithEntry(publicKeys, id, key.value))

sendMessage(user, content, participantRows, profileTable, profilesOk, rnd, insertOk) ==
  IF ~participantRows.ok
    THEN SendResult("returned", "", {}, <<>>, FALSE, NoEncryptCall, NoRow)
  ELSE
    LET recipientIds == participantRows.ids \cup {user}
        profileRows == [id \in recipientIds |-> profileTable[id]]
    IN IF ~profilesOk
         THEN SendResult("returned", "", recipientIds, <<>>, FALSE, NoEncryptCall,
                         NoRow)
       ELSE
         LET publicKeys == ImportLoop(profileRows, ObjectEntries(profileRows), 1, <<>>)
         IN IF ~publicKeys.ok
              THEN SendResult("threw", publicKeys.error, recipientIds, <<>>, FALSE,
                              NoEncryptCall, NoRow)
            ELSE
              LET warned == Cardinality(DOMAIN publicKeys.value)
                              # Cardinality(recipientIds)
                  encryptedData == EncryptCall(content, publicKeys.value, rnd)
                  row == [sender_id |-> user,
                          content |-> JsonStringify(encryptedData.result.value),
                          content_type |-> "text"]
              IN IF ~encryptedData.result.ok
                   THEN SendResult("threw", encryptedData.result.error, recipientIds,
                                   publicKeys.value, warned, encryptedData, NoRow)
                 ELSE IF ~insertOk
                   THEN SendResult("threw", "PostgrestError", recipientIds,
                                   publicKeys.value, warned, encryptedData, row)
                 ELSE SendResult("inserted", "", recipientIds, publicKeys.value,
                                 warned, encryptedData, row)

(***************************************************************************)
(* State.                                                                  *)
(*   gcmLog, oaepLog  what AES-GCM and RSA-OAEP have encrypted so far      *)
(*   call             the last call of encryptMessage and its result       *)
(*   wire             the parsed content of a message as a reader gets it  *)
(*   read             the last call of decryptMessage and its result       *)
(*   profiles         the public_key column of the profiles table          *)
(*   participants     the participants of the active conversation          *)
(*   messages         the messages table                                   *)
(*   sent             the last call of sendMessage and its result          *)
(*   shown            the messages state of ChatProvider: whether the      *)
(*                    conversation is open, and the list displayed         *)
(*   blobs            the objects of the attachments bucket                *)
(*   file             the last file encrypted, what a reader receives of   *)
(*                    it and the result of decryptFile                     *)
(*   keys             the two items of localStorage, the keyPair state of  *)
(*                    ChatProvider and the runs of initKeys                *)
(***************************************************************************)
VARIABLES gcmLog, oaepLog, call, wire, read, profiles, participants, messages, sent,
          shown, blobs, file, keys, signup, session, live, contacts

cryptoVars == <<gcmLog, oaepLog, call, wire, read>>
chatVars == <<profiles, participants, messages, sent>>
clientVars == <<shown, blobs, file>>
vars == <<gcmLog, oaepLog, call, wire, read, profiles, participants, messages, sent,
          shown, blobs, file, keys, signup, session, live, contacts>>

(***************************************************************************)
(* The pages around the chat.  Each is idle in the specifications of the   *)
(* envelope, of sending, of reading, of files and of keys.                 *)
(*   signup    the state of SignUpPage and of its RecoveryKeyDisplay, and  *)
(*             the sign-up requests issued                                 *)
(*   session   the user of the session as ChatProvider sees it, with the   *)
(*             keyPair state and localStorage of each identity             *)
(*   live      the messages effect of ChatProvider: the rows stored, the   *)
(*             query and the handlers in flight and the list displayed     *)
(*   contacts  the rows of public.contacts                                 *)
(***************************************************************************)
pageVars == <<signup, session, live, contacts>>

NoSignUp ==
  [step |-> "identity", isLoading |-> FALSE, error |-> "", username |-> <<>>,
   password |-> <<>>, confirmPassword |-> <<>>, recoveryKey |-> <<>>,
   copied |-> FALSE, saved |-> FALSE, kept |-> {}, requests |-> <<>>]
NoSession ==
  [user |-> "none", keyPair |-> [privateKey |-> "null", publicKey |-> "null"],
   storage |-> <<>>, runs |-> {}, active |-> FALSE, fetches |-> {},
   used |-> [op |-> "none"]]
NoLive ==
  [rows |-> <<>>, active |-> "none", effects |-> 0, loaded |-> FALSE,
   fetches |-> {}, handlers |-> {}, list |-> <<>>]
NoContacts == [rows |-> {}, calls |-> {}, done |-> {}]

PageIdle ==
  /\ signup = NoSignUp
  /\ session = NoSession
  /\ live = NoLive
  /\ contacts = NoContacts

\* The runs of initKeys and the reloads of the page considered.
MaxReloads == 1
Runs == {1, 2}

\* generateKeyPair: the n-th pair generated on this device.
GeneratedPair(n) ==
  [privateKey |-> [alg |-> "RSA-OAEP", type |-> "private", pair |-> 3 + n,
                   usages |-> {"decrypt"}, modulusBytes |-> ModulusBytes],
   publicKey |-> [alg |-> "RSA-OAEP", type |-> "public", pair |-> 3 + n,
                  usages |-> {"encrypt"}, modulusBytes |-> ModulusBytes]]

NoKeyPair == [privateKey |-> NullKey, publicKey |-> NullKey]

\* The pair of the signed-in user stored by an earlier session.
EarlierPair ==
  [privateKey |-> PrivateKey(SignedInUser), publicKey |-> PublicKey(SignedInUser)]

\* A publication of the private half.
PublishedPrivateKey(newKeyPair) == exportKey(newKeyPair.privateKey)

\* Line 60: the string published to the profile.
PublishedKey(newKeyPair) == exportKey(newKeyPair.publicKey)

\* Lines 38-41: both items are present (a non-empty string).
StoredKeysFound(storedPrivateKey, storedPublicKey) ==
  storedPrivateKey.kind # "null" /\ storedPublicKey.kind # "null"

\* Lines 42-47: the try block of the import branch.
ImportStored(storedPrivateKey, storedPublicKey) ==
  LET privateKey == importKey(storedPrivateKey, "private")
      publicKey == importKey(storedPublicKey, "public")
  IN IF ~privateKey.ok THEN privateKey
     ELSE IF ~publicKey.ok THEN publicKey
     ELSE Returned([privateKey |-> privateKey.value, publicKey |-> publicKey.value])

\* A run of initKeys: where it is suspended, the items it read, the pair it
\* generated, the step that failed and the state of the promise it returned.
IdleRun ==
  [pc |-> "idle", storedPrivateKey |-> NullKey, storedPublicKey |-> NullKey,
   newKeyPair |-> NoKeyPair, failed |-> "", promise |-> "none"]

NoKeys ==
  [priv |-> NullKey, pub |-> NullKey, keyPair |-> NoKeyPair,
   run |-> [r \in Runs |-> IdleRun], generated |-> 0, published |-> 0,
   reloads |-> 0, reset |-> FALSE]

NoCall ==
  [kind |-> "none", text |-> <<>>, recipients |-> <<>>, rnd |-> 0,
   result |-> Thrown("", "")]
NoWire ==
  [present |-> FALSE, encryptedContent |-> <<>>, encryptedKeys |-> JsUndefined,
   encryptedKey |-> JsUndefined, iv |-> <<>>, altered |-> "none"]
NoRead ==
  [done |-> FALSE, userId |-> NoUser, privateKey |-> PrivateKey("alice"),
   result |-> Thrown("", "")]
NothingShown == [open |-> FALSE, fetched |-> FALSE, list |-> <<>>]
NoFile ==
  [stage |-> "none", bytes |-> <<>>, rnd |-> 0, key |-> <<>>, iv |-> <<>>,
   encryptedBlob |-> <<>>, wireKey |-> <<>>, wireIv |-> <<>>, wireBlob |-> <<>>,
   altered |-> "none", result |-> Thrown("", "")]

CallRecord(kind, text, recipients, rnd, result) ==
  [kind |-> kind, text |-> text, recipients |-> recipients, rnd |-> rnd,
   result |-> result]

\* The message content a reader parses: the envelope of encryptMessage.
WireOf(envelope) ==
  [present |-> TRUE, encryptedContent |-> envelope.encryptedContent,
   encryptedKeys |-> envelope.encryptedKeys, encryptedKey |-> JsUndefined,
   iv |-> envelope.iv, altered |-> "none"]

\* The content of the earlier single-recipient format: the one wrapped key,
\* a string, in the field encryptedKeys or encryptedKey.
LegacyWireOf(envelope, target, field) ==
  [present |-> TRUE, encryptedContent |-> envelope.encryptedContent,
   encryptedKeys |-> IF field = "encryptedKeys"
                       THEN JsString(envelope.encryptedKeys.map[target])
                       ELSE JsUndefined,
   encryptedKey |-> IF field = "encryptedKey"
                      THEN JsString(envelope.encryptedKeys.map[target])
                      ELSE JsUndefined,
   iv |-> envelope.iv, altered |-> "none"]

KeysFor(R) == [u \in R |-> PublicKey(u)]

CryptoIdle ==
  /\ gcmLog = {}
  /\ oaepLog = {}
  /\ call = NoCall
  /\ wire = NoWire
  /\ read = NoRead

ClientIdle ==
  /\ shown = NothingShown
  /\ blobs = {}
  /\ file = NoFile
  /\ keys = NoKeys
  /\ PageIdle

Init ==
  /\ CryptoIdle
  /\ profiles = [u \in Users |-> NullKey]
  /\ participants = {}
  /\ messages = <<>>
  /\ sent = NotSent
  /\ ClientIdle

\* A caller encrypts text for the recipients R, each with its public key.
Encrypt(text, R, rnd) ==
  /\ call.kind = "none"
  /\ \E c \in {EncryptCall(text, KeysFor(R), rnd)} :
        /\ call' = CallRecord("current", text, KeysFor(R), rnd, c.result)
        /\ gcmLog' = gcmLog \cup c.gcm
        /\ oaepLog' = oaepLog \cup c.oaep
        /\ wire' = IF c.result.ok THEN WireOf(c.result.value) ELSE NoWire
  /\ read' = NoRead
  /\ UNCHANGED chatVars
  /\ UNCHANGED clientVars
  /\ UNCHANGED <<keys, pageVars>>

\* An earlier client encrypted text for the single recipient target.
EncryptLegacy(text, target, rnd, field) ==
  /\ call.kind = "none"
  /\ \E c \in {EncryptCall(text, KeysFor({target}), rnd)} :
        /\ call' = CallRecord("legacy", text, KeysFor({target}), rnd, c.result)
        /\ gcmLog' = gcmLog \cup c.gcm
        /\ oaepLog' = oaepLog \cup c.oaep
        /\ wire' = LegacyWireOf(c.result.value, target, field)
  /\ read' = NoRead
  /\ UNCHANGED chatVars
  /\ UNCHANGED clientVars
  /\ UNCHANGED <<keys, pageVars>>

\* One bit of one code unit of a string flipped.
FlipBit(s, pos, bit) ==
  [s EXCEPT ![pos] = IF (s[pos] \div Pow2(bit)) % 2 = 1
                       THEN s[pos] - Pow2(bit) ELSE s[pos] + Pow2(bit)]

PadCount(s) == Cardinality({j \in DOMAIN s : s[j] = PadChar})

\* The characters altered: the first, the last one that carries data and
\* the last one.
TamperPositions(s) == {1, Len(s) - PadCount(s), Len(s)} \cap DOMAIN s

\* Storage or transport alters one bit of encryptedContent or of iv of an
\* envelope of encryptMessage.
Tamper(field, bit) ==
  /\ wire.present
  /\ ~read.done
  /\ wire.altered = "none"
  /\ call.kind = "current"
  /\ \/ /\ field = "encryptedContent"
        /\ \E pos \in TamperPositions(wire.encryptedContent) :
             wire' = [wire EXCEPT !.encryptedContent = FlipBit(@, pos, bit),
                                  !.altered = field]
     \/ /\ field = "iv"
        /\ \E pos \in TamperPositions(wire.iv) :
             wire' = [wire EXCEPT !.iv = FlipBit(@, pos, bit), !.altered = field]
  /\ read' = NoRead
  /\ UNCHANGED <<gcmLog, oaepLog, call>>
  /\ UNCHANGED chatVars
  /\ UNCHANGED clientVars
  /\ UNCHANGED <<keys, pageVars>>

\* The call of decryptMessage as the reading callers make it (fetchMessages,
\* lines 127-133).
ReadCall(userId, privateKey) ==
  decryptMessage(gcmLog, oaepLog, wire.encryptedContent,
                 JsOr(wire.encryptedKeys, wire.encryptedKey), wire.iv,
                 privateKey, userId)

\* A reader decrypts the content with an identity and a private key.  An
\* altered envelope is read by its recipients, each with its own key.
Decrypt(userId, keyOwner) ==
  /\ wire.present
  /\ ~read.done
  /\ wire.altered # "none" =>
       userId = keyOwner /\ userId \in DOMAIN wire.encryptedKeys.map
  /\ \E result \in {ReadCall(userId, PrivateKey(keyOwner))} :
       read' = [done |-> TRUE, userId |-> userId,
                privateKey |-> PrivateKey(keyOwner), result |-> result]
  /\ UNCHANGED <<gcmLog, oaepLog, call, wire>>
  /\ UNCHANGED chatVars
  /\ UNCHANGED clientVars
  /\ UNCHANGED <<keys, pageVars>>

Next ==
  \/ /\ call.kind = "none"
     /\ \E text \in Plaintexts, R \in SUBSET Users, rnd \in RandomStreams :
          Encrypt(text, R, rnd)
  \/ /\ call.kind = "none"
     /\ \E text \in Plaintexts, target \in Users, rnd \in RandomStreams,
           field \in {"encryptedKeys", "encryptedKey"} :
          EncryptLegacy(text, target, rnd, field)
  \/ \E field \in {"encryptedContent", "iv"}, bit \in 0..MaxFlipBit :
       Tamper(field, bit)
  \/ \E userId \in UserIds, keyOwner \in Users : Decrypt(userId, keyOwner)

Spec == Init /\ [][Next]_vars

(***************************************************************************)
(* The send path: the signed-in user sends one message in a conversation   *)
(* with any participants, whose profiles hold no key, the exported public  *)
(* key of their pair, the key of a pair with a 512-bit modulus, or text    *)
(* that is no key.                                                         *)
(***************************************************************************)
\* String.prototype.trim removes white space, U+FEFF included, at both ends.
IsWhiteSpace(c) ==
  c \in {9, 10, 11, 12, 13, 32, 160, 5760, 8232, 8233, 8239, 8287, 12288, 65279}
    \cup 8192..8202

RECURSIVE TrimStart(_)
TrimStart(s) ==
  IF Len(s) > 0 /\ IsWhiteSpace(s[1]) THEN TrimStart(Tail(s)) ELSE s

RECURSIVE TrimEnd(_)
TrimEnd(s) ==
  IF Len(s) > 0 /\ IsWhiteSpace(s[Len(s)])
    THEN TrimEnd(SubSeq(s, 1, Len(s) - 1)) ELSE s

Trim(s) == TrimEnd(TrimStart(s))

\* handleSend passes on the text typed unless it is blank.
SendTexts ==
  {t \in UNION {[1..n -> CodeUnits] : n \in 0..MaxSendLen} : Trim(t) # <<>>}

ProfileKeys(u) ==
  {NullKey, exportKey(PublicKey(u)), exportKey(ShortPublicKey(u)), MalformedKey}

SendInit ==
  /\ CryptoIdle
  /\ profiles \in {f \in [Users -> UNION {ProfileKeys(u) : u \in Users}] :
                     \A u \in Users : f[u] \in ProfileKeys(u)}
  /\ participants \in SUBSET Users
  /\ messages = <<>>
  /\ sent = NotSent
  /\ ClientIdle

SendMessage(content, rnd, participantsOk, profilesOk, insertOk) ==
  /\ sent.outcome = "none"
  /\ \E r \in {sendMessage(SignedInUser, content,
                          [ok |-> participantsOk, ids |-> participants],
                          profiles, profilesOk, rnd, insertOk)} :
        /\ sent' = r
        /\ messages' = IF r.outcome = "inserted"
                         THEN Append(messages, r.row) ELSE messages
        /\ call' = IF r.encryption # NoEncryptCall
                     THEN CallRecord("current", content, r.publicKeys, rnd,
                                     r.encryption.result)
                     ELSE call
        /\ gcmLog' = gcmLog \cup r.encryption.gcm
        /\ oaepLog' = oaepLog \cup r.encryption.oaep
  /\ UNCHANGED <<wire, read, profiles, participants>>
  /\ UNCHANGED clientVars

SendNext ==
  \E content \in SendTexts, rnd \in RandomStreams,
     participantsOk \in BOOLEAN, profilesOk \in BOOLEAN, insertOk \in BOOLEAN :
    /\ SendMessage(content, rnd, participantsOk, profilesOk, insertOk)
    /\ UNCHANGED <<keys, pageVars>>

SendSpec == SendInit /\ [][SendNext]_vars

(***************************************************************************)
(* The read path of ChatProvider: the signed-in user, holding the private  *)
(* key of their pair, opens a conversation (fetchMessages) and receives    *)
(* the rows inserted afterwards (the realtime INSERT handler).  The rows   *)
(* are those other clients have stored.                                    *)
(***************************************************************************)
MaxRows == 2

\* "⚠️ Decryption Failed", lines 137 and 167.
DecryptionFailed ==
  <<9888, 65039, 32, 68, 101, 99, 114, 121, 112, 116, 105, 111, 110, 32,
    70, 97, 105, 108, 101, 100>>

\* A content that is text and no JSON.
PlainContent(text) == [kind |-> "text", value |-> text]

\* JSON.parse(msg.content).  No text over CodeUnits is a JSON text.
JsonParse(content) ==
  IF content.kind = "json" THEN Returned(content.value)
  ELSE Thrown("SyntaxError", "parse")

\* The property name of the parsed value obj.
Field(obj, name) == IF name \in DOMAIN obj THEN obj[name] ELSE JsUndefined

\* Lines 126-133 and 155-162: what the try block of a reading caller gives
\* for one row.
DecryptRow(gcm, oaep, msg, privateKey, userId) ==
  LET parsedContent == JsonParse(msg.content)
  IN IF ~parsedContent.ok THEN parsedContent
     ELSE decryptMessage(gcm, oaep,
                         Field(parsedContent.value, "encryptedContent"),
                         JsOr(Field(parsedContent.value, "encryptedKeys"),
                              Field(parsedContent.value, "encryptedKey")),
                         Field(parsedContent.value, "iv"), privateKey, userId)

\* Lines 134-138 and 163-167: the message as displayed, with the text
\* decrypted or, in the catch block, the placeholder.
ShownMessage(msg, result, userId) ==
  [msg |-> msg,
   decryptedContent |-> IF result.ok THEN result.value ELSE DecryptionFailed,
   is_mine |-> msg.sender_id = userId]

\* A map without the catch block that stops at the first row that fails.
RECURSIVE MapUntilFailure(_, _, _, _, _)
MapUntilFailure(gcm, oaep, data, privateKey, userId) ==
  IF data = <<>> THEN <<>>
  ELSE LET result == DecryptRow(gcm, oaep, Head(data), privateKey, userId)
       IN IF ~result.ok THEN <<>>
          ELSE <<ShownMessage(Head(data), result, userId)>>
                 \o MapUntilFailure(gcm, oaep, Tail(data), privateKey, userId)

\* Lines 124-139: Promise.all(data.map(...)) of fetchMessages.
RECURSIVE DecryptRows(_, _, _, _, _)
DecryptRows(gcm, oaep, data, privateKey, userId) ==
  IF data = <<>> THEN <<>>
  ELSE <<ShownMessage(Head(data),
                      DecryptRow(gcm, oaep, Head(data), privateKey, userId),
                      userId)>>
         \o DecryptRows(gcm, oaep, Tail(data), privateKey, userId)

\* Lines 111-142: fetchMessages, given the rows selected or the error of
\* the query, and the list displayed before.
fetchMessages(gcm, oaep, prev, data, queryOk, privateKey, userId) ==
  IF ~queryOk THEN prev
  ELSE DecryptRows(gcm, oaep, data, privateKey, userId)

\* Lines 151-169: the realtime INSERT handler.
onInsert(gcm, oaep, prev, newMsg, privateKey, userId) ==
  Append(prev, ShownMessage(newMsg,
                            DecryptRow(gcm, oaep, newMsg, privateKey, userId),
                            userId))

\* What other clients store: an envelope for the reader and the sender, one
\* for the sender only, one whose ciphertext storage has altered, the
\* wrapped key as a string, text that is no JSON, and JSON that is no
\* envelope.
RowKinds == {"envelope", "others", "altered", "legacy", "plain", "json"}
RowText == <<65>>
RowSender == "bob"

RowContent(kind, envelope) ==
  IF kind = "plain" THEN PlainContent(RowText)
  ELSE IF kind = "json" THEN JsonStringify(<<>>)
  ELSE IF kind = "altered"
    THEN JsonStringify([envelope EXCEPT !.encryptedContent = FlipBit(@, 1, 0)])
  ELSE IF kind = "legacy"
    THEN JsonStringify([encryptedContent |-> envelope.encryptedContent,
                        encryptedKey |->
                          JsString(envelope.encryptedKeys.map[SignedInUser]),
                        iv |-> envelope.iv])
  ELSE JsonStringify(envelope)

RowRecipients(kind) ==
  IF kind = "others" THEN {RowSender}
  ELSE IF kind = "legacy" THEN {SignedInUser}
  ELSE {SignedInUser, RowSender}

ReadInit ==
  /\ CryptoIdle
  /\ profiles = [u \in Users |-> exportKey(PublicKey(u))]
  /\ participants = {RowSender}
  /\ messages = <<>>
  /\ sent = NotSent
  /\ ClientIdle

\* Another client stores a row; when the conversation is open the realtime
\* handler of the signed-in user receives it.
StoreRow(kind, rnd) ==
  /\ Len(messages) < MaxRows
  /\ \E c \in {EncryptCall(RowText, KeysFor(RowRecipients(kind)), rnd)} :
       \E row \in {[sender_id |-> RowSender,
                    content |-> RowContent(kind, c.result.value),
                    content_type |-> "text"]} :
         /\ gcmLog' = gcmLog \cup c.gcm
         /\ oaepLog' = oaepLog \cup c.oaep
         /\ messages' = Append(messages, row)
         /\ shown' = IF shown.open
                       THEN [shown EXCEPT !.list =
                               onInsert(gcmLog', oaepLog', @, row,
                                        PrivateKey(SignedInUser), SignedInUser)]
                       ELSE shown
  /\ UNCHANGED <<call, wire, read, profiles, participants, sent, blobs, file, keys, pageVars>>

\* The signed-in user opens the conversation: the effect of lines 108-175
\* fetches the messages and subscribes to the inserts.
OpenConversation(queryOk) ==
  /\ ~shown.open
  /\ \E list \in {fetchMessages(gcmLog, oaepLog, shown.list, messages, queryOk,
                                 PrivateKey(SignedInUser), SignedInUser)} :
       shown' = [open |-> TRUE, fetched |-> queryOk, list |-> list]
  /\ UNCHANGED <<cryptoVars, chatVars, blobs, file, keys, pageVars>>

ReadNext ==
  \/ \E kind \in RowKinds, rnd \in RandomStreams : StoreRow(kind, rnd)
  \/ \E queryOk \in BOOLEAN : OpenConversation(queryOk)

ReadSpec == ReadInit /\ [][ReadNext]_vars

(***************************************************************************)
(* Files.  handleFileUpload encrypts the file chosen, uploads the          *)
(* encrypted blob to the attachments bucket and sends a message whose      *)
(* text is the JSON of {type, path, key, iv, mime, name}.  A reader        *)
(* downloads the blob and calls decryptFile with the key and iv of the     *)
(* payload.                                                                *)
(***************************************************************************)
MaxFileLen == 1
FileByteValues == {0, 255}
Files == UNION {[1..n -> FileByteValues] : n \in 0..MaxFileLen}

\* Lines 154-182: encryptFile, with the random draws of the call.
encryptFile(fileBuffer, rnd) ==
  LET rawSessionKey == RandomBytes(AesKeyBytes, rnd, 1)
      iv == RandomBytes(IvBytes, rnd, 2)
  IN [encryptedBlob |-> AesGcmCiphertext(rawSessionKey, iv, fileBuffer),
      key |-> arrayBufferToBase64(rawSessionKey),
      iv |-> arrayBufferToBase64(iv),
      gcm |-> {AesGcmEntry(rawSessionKey, iv, fileBuffer)}]

\* A decryption of a file that does not bind the nonce.
decryptFileAnyIv(gcm, encryptedBlob, keyStr, ivStr) ==
  LET rawKey == base64ToArrayBuffer(keyStr)
  IN IF ~rawKey.ok THEN Thrown("InvalidCharacterError", "atob-key")
     ELSE LET sessionKey == ImportRawAesKey(rawKey.value)
          IN IF ~sessionKey.ok THEN sessionKey
             ELSE AesGcmDecryptAnyIv(gcm, sessionKey.value, <<>>, encryptedBlob)

\* Lines 187-211: decryptFile.
decryptFile(gcm, encryptedBlob, keyStr, ivStr) ==
  LET rawKey == base64ToArrayBuffer(keyStr)
  IN IF ~rawKey.ok THEN Thrown("InvalidCharacterError", "atob-key")
     ELSE LET sessionKey == ImportRawAesKey(rawKey.value)
          IN IF ~sessionKey.ok THEN sessionKey
             ELSE LET ivBuffer == base64ToArrayBuffer(ivStr)
                  IN IF ~ivBuffer.ok THEN Thrown("InvalidCharacterError", "atob-iv")
                     ELSE AesGcmDecrypt(gcm, sessionKey.value, ivBuffer.value,
                                        encryptedBlob)

\* JSON.stringify(payload), lines 69-79, for a file of type "" named "f"
\* stored at the path "p".
PayloadText(key, iv) ==
  <<123, 34, 116, 121, 112, 101, 34, 58, 34, 102, 105, 108, 101, 34, 44>>
    \o <<34, 112, 97, 116, 104, 34, 58, 34, 112, 34, 44>>
    \o <<34, 107, 101, 121, 34, 58, 34>> \o key \o <<34, 44>>
    \o <<34, 105, 118, 34, 58, 34>> \o iv \o <<34, 44>>
    \o <<34, 109, 105, 109, 101, 34, 58, 34, 34, 44>>
    \o <<34, 110, 97, 109, 101, 34, 58, 34, 102, 34, 125>>

\* An upload of the file as chosen.
UploadBodyPlain(fileBuffer, encrypted) == fileBuffer

\* Lines 62-64: the body uploaded.
UploadBody(fileBuffer, encrypted) == encrypted.encryptedBlob

FileInit ==
  /\ CryptoIdle
  /\ profiles \in {f \in [Users -> {NullKey} \cup {exportKey(PublicKey(u)) : u \in Users}] :
                     /\ f[SignedInUser] = exportKey(PublicKey(SignedInUser))
                     /\ f["bob"] \in {NullKey, exportKey(PublicKey("bob"))}
                     /\ f["carol"] = NullKey}
  /\ participants = {"bob"}
  /\ messages = <<>>
  /\ sent = NotSent
  /\ ClientIdle

\* Lines 49-89: handleFileUpload.  The two calls draw their keys and nonces
\* independently: rnd for encryptFile, msgRnd for encryptMessage.
HandleFileUpload(fileBuffer, rnd, msgRnd, uploadOk, queriesOk, insertOk) ==
  /\ file.stage = "none"
  /\ rnd # msgRnd
  /\ \E encrypted \in {encryptFile(fileBuffer, rnd)} :
       /\ file' = [NoFile EXCEPT !.stage = "encrypted", !.bytes = fileBuffer,
                                 !.rnd = rnd, !.key = encrypted.key,
                                 !.iv = encrypted.iv,
                                 !.encryptedBlob = encrypted.encryptedBlob,
                                 !.wireKey = encrypted.key, !.wireIv = encrypted.iv,
                                 !.wireBlob = encrypted.encryptedBlob]
       /\ IF ~uploadOk
            THEN /\ gcmLog' = gcmLog \cup encrypted.gcm
                 /\ UNCHANGED <<blobs, messages, sent, call, oaepLog>>
            ELSE \E r \in {sendMessage(SignedInUser,
                                       PayloadText(encrypted.key, encrypted.iv),
                                       [ok |-> queriesOk, ids |-> participants],
                                       profiles, queriesOk, msgRnd, insertOk)} :
                   /\ blobs' = blobs \cup {[path |-> rnd,
                                            body |-> UploadBody(fileBuffer, encrypted)]}
                   /\ sent' = r
                   /\ messages' = IF r.outcome = "inserted"
                                    THEN Append(messages,
                                                [r.row EXCEPT !.content_type = "file"])
                                    ELSE messages
                   /\ call' = IF r.encryption # NoEncryptCall
                                THEN CallRecord("current",
                                                PayloadText(encrypted.key, encrypted.iv),
                                                r.publicKeys, msgRnd, r.encryption.result)
                                ELSE call
                   /\ gcmLog' = gcmLog \cup encrypted.gcm \cup r.encryption.gcm
                   /\ oaepLog' = oaepLog \cup r.encryption.oaep
  /\ UNCHANGED <<wire, read, profiles, participants, shown, keys, pageVars>>

\* Storage or transport alters one bit of the key, of the iv or of the blob.
TamperFile(field, bit) ==
  /\ file.stage = "encrypted"
  /\ file.altered = "none"
  /\ \/ /\ field = "key"
        /\ \E pos \in TamperPositions(file.wireKey) :
             file' = [file EXCEPT !.wireKey = FlipBit(@, pos, bit), !.altered = field]
     \/ /\ field = "iv"
        /\ \E pos \in TamperPositions(file.wireIv) :
             file' = [file EXCEPT !.wireIv = FlipBit(@, pos, bit), !.altered = field]
     \/ /\ field = "blob"
        /\ bit < 8
        /\ \E pos \in {1, Len(file.wireBlob)} :
             file' = [file EXCEPT !.wireBlob = FlipBit(@, pos, bit), !.altered = field]
  /\ UNCHANGED <<cryptoVars, chatVars, shown, blobs, keys, pageVars>>

\* A reader calls decryptFile with the blob, the key and the iv received
\* (ChatInterface.tsx line 207).
DecryptFile ==
  /\ file.stage = "encrypted"
  /\ \E result \in {decryptFile(gcmLog, file.wireBlob, file.wireKey, file.wireIv)} :
       file' = [file EXCEPT !.stage = "read", !.result = result]
  /\ UNCHANGED <<cryptoVars, chatVars, shown, blobs, keys, pageVars>>

FileNext ==
  \/ \E fileBuffer \in Files, rnd \in RandomStreams, msgRnd \in RandomStreams,
        uploadOk \in BOOLEAN, queriesOk \in BOOLEAN, insertOk \in BOOLEAN :
       HandleFileUpload(fileBuffer, rnd, msgRnd, uploadOk, queriesOk, insertOk)
  \/ \E field \in {"key", "iv", "blob"}, bit \in 0..MaxFlipBit : TamperFile(field, bit)
  \/ DecryptFile

FileSpec == FileInit /\ [][FileNext]_vars

(***************************************************************************)
(* Key initialisation.  The effect of ChatProvider runs initKeys when it   *)
(* mounts and whenever the user object changes; runs of the same identity  *)
(* share localStorage, and a run is suspended at every await.  The         *)
(* Settings page offers Reset Keys: localStorage.clear() and a reload.     *)
(***************************************************************************)
\* localStorage as an earlier session left it: empty, the exported pair, or
\* items that are no keys.
StoredItems ==
  {[priv |-> NullKey, pub |-> NullKey],
   [priv |-> exportKey(EarlierPair.privateKey),
    pub |-> exportKey(EarlierPair.publicKey)],
   [priv |-> MalformedKey, pub |-> exportKey(EarlierPair.publicKey)]}

KeyInit ==
  /\ CryptoIdle
  /\ \E items \in StoredItems :
       /\ keys = [NoKeys EXCEPT !.priv = items.priv, !.pub = items.pub]
       /\ profiles = [u \in Users |->
                        IF u = SignedInUser /\ items.pub.kind = "jwk"
                          THEN items.pub
                          ELSE IF u = SignedInUser THEN NullKey
                          ELSE exportKey(PublicKey(u))]
  /\ participants = {"bob"}
  /\ messages = <<>>
  /\ sent = NotSent
  /\ shown = NothingShown
  /\ blobs = {}
  /\ file = NoFile
  /\ PageIdle

KeysUnchanged ==
  UNCHANGED <<cryptoVars, participants, messages, sent, shown, blobs, file, pageVars>>

\* Lines 35-41 and the call of line 43 or 51: the run reads the two items
\* and starts the import or the generation.
StartInitKeys(r) ==
  /\ keys.run[r].pc = "idle"
  /\ keys' = [keys EXCEPT
       !.run[r] = [IdleRun EXCEPT
          !.pc = IF StoredKeysFound(keys.priv, keys.pub) THEN "import" ELSE "generate",
          !.storedPrivateKey = keys.priv,
          !.storedPublicKey = keys.pub,
          !.promise = "pending"]]
  /\ UNCHANGED profiles
  /\ KeysUnchanged

\* Lines 42-47: the imports resolve and the pair is set, or one throws and
\* the catch block logs it.
ImportStoredKeys(r) ==
  /\ keys.run[r].pc = "import"
  /\ \E imported \in {ImportStored(keys.run[r].storedPrivateKey,
                                    keys.run[r].storedPublicKey)} :
       keys' = [keys EXCEPT
         !.keyPair = IF imported.ok THEN imported.value ELSE @,
         !.run[r].pc = "done",
         !.run[r].failed = IF imported.ok THEN "" ELSE "import",
         !.run[r].promise = "resolved"]
  /\ UNCHANGED profiles
  /\ KeysUnchanged

\* Lines 51-52: generateKeyPair resolves and the pair is set, or rejects.
GenerateKeys(r, ok) ==
  /\ keys.run[r].pc = "generate"
  /\ keys' = IF ok
       THEN [keys EXCEPT !.generated = @ + 1,
                         !.keyPair = GeneratedPair(keys.generated + 1),
                         !.run[r].newKeyPair = GeneratedPair(keys.generated + 1),
                         !.run[r].pc = "storePrivate"]
       ELSE [keys EXCEPT !.run[r].pc = "done", !.run[r].failed = "generate",
                         !.run[r].promise = "rejected"]
  /\ UNCHANGED profiles
  /\ KeysUnchanged

\* Line 55: the private key is exported and stored, or setItem throws.
StorePrivateKey(r, ok) ==
  /\ keys.run[r].pc = "storePrivate"
  /\ keys' = IF ok
       THEN [keys EXCEPT !.priv = exportKey(keys.run[r].newKeyPair.privateKey),
                         !.run[r].pc = "storePublic"]
       ELSE [keys EXCEPT !.run[r].pc = "done", !.run[r].failed = "store",
                         !.run[r].promise = "rejected"]
  /\ UNCHANGED profiles
  /\ KeysUnchanged

\* Line 56: the public key is exported and stored.
StorePublicKey(r) ==
  /\ keys.run[r].pc = "storePublic"
  /\ keys' = [keys EXCEPT !.pub = exportKey(keys.run[r].newKeyPair.publicKey),
                          !.run[r].pc = "publish"]
  /\ UNCHANGED profiles
  /\ KeysUnchanged

\* Lines 60-61: the update of the profile, whose result is not read.
PublishKey(r, ok) ==
  /\ keys.run[r].pc = "publish"
  /\ keys' = [keys EXCEPT !.published = @ + 1, !.run[r].pc = "done",
                          !.run[r].promise = "resolved"]
  /\ profiles' = IF ok
                   THEN [profiles EXCEPT ![SignedInUser] =
                           PublishedKey(keys.run[r].newKeyPair)]
                   ELSE profiles
  /\ KeysUnchanged

\* window.location.reload(), after localStorage.clear() when clear is TRUE
\* (SettingsPage.tsx lines 157-158): the state of ChatProvider is lost and
\* the runs in progress with it.
Reload(clear) ==
  /\ keys.reloads < MaxReloads
  /\ keys' = [keys EXCEPT !.priv = IF clear THEN NullKey ELSE @,
                          !.pub = IF clear THEN NullKey ELSE @,
                          !.keyPair = NoKeyPair,
                          !.run = [r \in Runs |-> IdleRun],
                          !.reloads = @ + 1,
                          !.reset = @ \/ clear]
  /\ UNCHANGED profiles
  /\ KeysUnchanged

\* The signed-in user sends a message once a pair is set (line 178), here
\* while no run of initKeys is suspended.
SendWithKeys(content, rnd) ==
  /\ keys.keyPair # NoKeyPair
  /\ \A r \in Runs : keys.run[r].pc \in {"idle", "done"}
  /\ SendMessage(content, rnd, TRUE, TRUE, TRUE)
  /\ UNCHANGED <<keys, pageVars>>

KeyNext ==
  \/ \E r \in Runs : StartInitKeys(r)
  \/ \E r \in Runs : ImportStoredKeys(r)
  \/ \E r \in Runs, ok \in BOOLEAN : GenerateKeys(r, ok)
  \/ \E r \in Runs, ok \in BOOLEAN : StorePrivateKey(r, ok)
  \/ \E r \in Runs : StorePublicKey(r)
  \/ \E r \in Runs, ok \in BOOLEAN : PublishKey(r, ok)
  \/ \E clear \in BOOLEAN : Reload(clear)
  \/ \E rnd \in RandomStreams : SendWithKeys(RowText, rnd)

KeySpec == KeyInit /\ [][KeyNext]_vars

(***************************************************************************)
(* Properties of the envelope functions, checked under Spec.               *)
(***************************************************************************)
\* The reader is a recipient of the call and holds its own private key.
ReadByRecipient ==
  /\ read.done
  /\ call.kind = "current"
  /\ read.userId \in DOMAIN call.recipients
  /\ read.privateKey = PrivateKey(read.userId)

\* The recipient for which a legacy envelope was made.
LegacyTarget == CHOOSE u \in DOMAIN call.recipients : TRUE

\* The reader of a legacy envelope holds the private key of its target.
ReadByLegacyTarget ==
  /\ read.done
  /\ call.kind = "legacy"
  /\ read.privateKey = PrivateKey(LegacyTarget)

\* A string without unpaired surrogates.
WellFormed(s) ==
  \A i \in DOMAIN s :
    /\ IsHighSurrogate(s[i]) => i < Len(s) /\ IsLowSurrogate(s[i + 1])
    /\ IsLowSurrogate(s[i]) => i > 1 /\ IsHighSurrogate(s[i - 1])

\* A string that TextEncode and TextDecode give back: well formed, and not
\* beginning with U+FEFF.
Utf8Stable(s) == WellFormed(s) /\ (Len(s) = 0 \/ s[1] # 65279)

\* C1: Round-trip.  For every plaintext P and every non-empty recipient set
\* R, decryptMessage applied to the envelope returned by encryptMessage(P, R),
\* with identity r and r's private key, returns exactly P, for every r in R.
RoundTrip ==
  (ReadByRecipient /\ wire.altered = "none") => read.result = Returned(call.text)

\* C1, a read that returns a string other than the plaintext encrypted.
RoundTripLosesText ==
  /\ ReadByRecipient
  /\ wire.altered = "none"
  /\ WellFormed(call.text)
  /\ read.result.ok
  /\ read.result.value # call.text

\* The extent of C1: the read returns the plaintext as TextDecode gives back
\* its UTF-8 encoding, which is the plaintext itself when it is well formed
\* and does not begin with U+FEFF.
RoundTripUpToUtf8 ==
  (ReadByRecipient /\ wire.altered = "none") =>
     /\ read.result = Returned(TextDecode(TextEncode(call.text)))
     /\ Utf8Stable(call.text) => read.result.value = call.text

\* C2: Missing-key isolation.  decryptMessage on a multi-recipient envelope
\* with an identity that is not a key of encryptedKeys fails with the error
\* "No encrypted key found for user", thrown at the lookup: no plaintext is
\* returned and no decryption of another recipient's entry is attempted.
MissingKeyIsolation ==
  (/\ read.done
   /\ wire.encryptedKeys.type = "object"
   /\ read.userId \notin DOMAIN wire.encryptedKeys.map)
  => read.result = Thrown("Error: No encrypted key found for user", "lookup")

\* C2, a read of an envelope for two or more recipients by another user.
MissingKeyRead ==
  /\ read.done
  /\ wire.encryptedKeys.type = "object"
  /\ Cardinality(DOMAIN wire.encryptedKeys.map) >= 2
  /\ read.userId \in Users \ DOMAIN wire.encryptedKeys.map
  /\ ~read.result.ok

\* C3: Key isolation.  decryptMessage on the entry wrapped for recipient A
\* with the private key of another identity B fails with the OperationError
\* of the RSA-OAEP decryption: no session key and no plaintext results.
KeyIsolation ==
  /\ (/\ read.done
      /\ call.kind = "current"
      /\ wire.altered = "none"
      /\ read.userId \in DOMAIN wire.encryptedKeys.map
      /\ read.privateKey # PrivateKey(read.userId))
     => read.result = Thrown("OperationError", "rsa-oaep")
  /\ (/\ read.done
      /\ call.kind = "legacy"
      /\ read.privateKey # PrivateKey(LegacyTarget))
     => read.result = Thrown("OperationError", "rsa-oaep")

\* C3, a recipient's entry read with the private key of another recipient.
ForeignKeyRead ==
  /\ read.done
  /\ call.kind = "current"
  /\ read.userId \in DOMAIN wire.encryptedKeys.map
  /\ \E b \in DOMAIN wire.encryptedKeys.map \ {read.userId} :
       read.privateKey = PrivateKey(b)
  /\ read.result.error = "OperationError"

\* C4: Legacy compatibility.  An envelope whose wrapped-key field is a
\* single string decrypts to the original plaintext with the private key of
\* the original target, whatever identity is passed as userId.
LegacyCompatibility ==
  ReadByLegacyTarget => read.result = Returned(call.text)

\* C4, a read of a legacy envelope, under an identity other than the
\* target's, that returns a string other than the plaintext encrypted.
LegacyLosesText ==
  /\ ReadByLegacyTarget
  /\ read.userId # LegacyTarget
  /\ WellFormed(call.text)
  /\ read.result.ok
  /\ read.result.value # call.text

\* The extent of C4: whatever the identity passed and whichever of the two
\* fields holds the string, the read returns the plaintext as TextDecode
\* gives back its UTF-8 encoding.
LegacyUpToUtf8 ==
  ReadByLegacyTarget =>
     /\ read.result = Returned(TextDecode(TextEncode(call.text)))
     /\ Utf8Stable(call.text) => read.result.value = call.text

\* An altered envelope has been read (by a recipient with its own key).
AlteredRead == read.done /\ wire.altered # "none"

ShapeOfEnvelope ==
  (call.kind # "none" /\ call.result.ok) =>
    LET encryptedKeys == call.result.value.encryptedKeys
    IN /\ encryptedKeys.type = "object"
       /\ DOMAIN encryptedKeys.map = DOMAIN call.recipients
       /\ \A u \in DOMAIN encryptedKeys.map :
            \E e \in oaepLog :
              /\ e.pair = call.recipients[u].pair
              /\ encryptedKeys.map[u] = arrayBufferToBase64(e.ct)

\* C7: Every envelope returned by encryptMessage has the multi-recipient
\* shape: at every step in which a call of encryptMessage returns an
\* envelope, encryptedKeys is a mapping whose key set is exactly the key set
\* of recipientPublicKeys, each entry the wrapped key made for that
\* recipient; the single-string shape is never produced.
EnvelopeShape == [][call' # call => ShapeOfEnvelope']_vars

\* C7, an envelope returned for three recipients.
EnvelopeForAll ==
  /\ call.kind = "current"
  /\ call.result.ok
  /\ DOMAIN call.recipients = Users
  /\ DOMAIN call.result.value.encryptedKeys.map = Users

(***************************************************************************)
(* Properties of the send path, checked under SendSpec.                    *)
(***************************************************************************)
\* The envelope stored as the content of a message.
StoredEnvelope(i) == messages[i].content.value

\* C8: encryptMessage fails when the recipient set is empty: called with
\* an empty recipientPublicKeys map it returns no envelope, and no message
\* with an empty encryptedKeys map is ever stored.
EmptyRecipientsFail ==
  /\ (call.kind # "none" /\ DOMAIN call.recipients = {}) => ~call.result.ok
  /\ \A i \in DOMAIN messages : DOMAIN StoredEnvelope(i).encryptedKeys.map # {}

\* C8, a stored message that no one can decrypt: its encryptedKeys is {}.
EmptyEnvelopeStored ==
  /\ call.kind # "none"
  /\ DOMAIN call.recipients = {}
  /\ call.result.ok
  /\ \E i \in DOMAIN messages : DOMAIN StoredEnvelope(i).encryptedKeys.map = {}

\* The participants resolved by the last send that have a published key.
WithKey == {u \in sent.recipientIds : profiles[u].kind # "null"}

\* Both queries of the last send resolved; some but not all participants
\* have a published public key, each one the exported key of its owner.
PartialCoverage ==
  /\ sent.outcome \in {"inserted", "threw"}
  /\ WithKey # {}
  /\ WithKey # sent.recipientIds
  /\ \A u \in WithKey : profiles[u] = exportKey(PublicKey(u))

\* C9: Partial key coverage never fails a send.  When sendMessage resolves
\* a participant set in which some but not all participants have a
\* published public key, the message is encrypted for exactly the
\* participants that have keys, each with its own key, and is inserted into
\* the message store; the send throws only the error of the store when the
\* store rejects the insert.
PartialCoverageSends ==
  PartialCoverage =>
    LET envelope == sent.encryption.result.value
    IN /\ sent.warned
       /\ sent.encryption.result.ok
       /\ DOMAIN sent.publicKeys = WithKey
       /\ DOMAIN envelope.encryptedKeys.map = WithKey
       /\ \A u \in WithKey :
            \E e \in oaepLog :
              /\ e.pair = PairOf[u]
              /\ envelope.encryptedKeys.map[u] = arrayBufferToBase64(e.ct)
       /\ sent.row.content = JsonStringify(envelope)
       /\ IF sent.error = "PostgrestError"
            THEN sent.outcome = "threw" /\ messages = <<>>
            ELSE sent.outcome = "inserted" /\ messages = <<sent.row>>

\* C9, a message inserted for the two participants with keys of a
\* conversation of three.
PartialCoverageInserted ==
  /\ PartialCoverage
  /\ Cardinality(WithKey) = 2
  /\ sent.recipientIds = Users
  /\ sent.outcome = "inserted"
  /\ Len(messages) = 1

\* The RSA-OAEP encryption of a session key under the key of recipient u of
\* the last call throws.
WrapFails(u) ==
  \/ "encrypt" \notin call.recipients[u].usages
  \/ AesKeyBytes > call.recipients[u].modulusBytes - 2 * HashBytes - 2

\* C10: No partial envelope is ever emitted.  encryptMessage either
\* returns an envelope with a wrapped key for every recipient of the call,
\* or throws and returns nothing; if wrapping fails for any recipient,
\* encryptMessage throws and sendMessage inserts no message record.
NoPartialEnvelope ==
  call.kind # "none" =>
    /\ IF call.result.ok
         THEN DOMAIN call.result.value.encryptedKeys.map = DOMAIN call.recipients
         ELSE /\ call.result.value = <<>>
              /\ sent.outcome = "threw"
              /\ sent.row = NoRow
              /\ messages = <<>>
    /\ (\E u \in DOMAIN call.recipients : WrapFails(u)) =>
         /\ ~call.result.ok
         /\ call.result.at = "rsa-oaep"
         /\ messages = <<>>

\* C10, a call that wrapped the session key for one recipient and failed
\* for the next: nothing is returned and nothing is inserted.
WrapFailedMidway ==
  /\ call.kind # "none"
  /\ ~call.result.ok
  /\ call.result.at = "rsa-oaep"
  /\ oaepLog # {}
  /\ sent.outcome = "threw"
  /\ messages = <<>>

(***************************************************************************)
(* Properties of the read path of decryptMessage, checked under Spec.      *)
(***************************************************************************)
\* What a caller of decryptMessage catches: the exception, not the step at
\* which it was thrown.
Caught(result) == result.error

\* The exception of an AES-GCM decryption whose tag does not verify.
TagFailure == AesGcmDecrypt({}, <<>>, <<>>, <<>>)

\* C13: The failure outcomes of decryptMessage reach the caller as
\* distinguishable conditions: the exception of a missing entry, that of a
\* failed unwrap of a present entry and that of a failed tag verification
\* are pairwise different.
FailuresDistinguishable ==
  read.done =>
    /\ read.result.at = "lookup" =>
         Caught(read.result) # Caught(TagFailure)
    /\ read.result.at = "rsa-oaep" =>
         Caught(read.result) # Caught(TagFailure)

\* C13, a failed unwrap of a present entry that the caller cannot tell from
\* a failed tag verification.
UnwrapFailureLooksLikeTagFailure ==
  /\ read.done
  /\ wire.altered = "none"
  /\ read.userId \in DOMAIN wire.encryptedKeys.map
  /\ read.result.at = "rsa-oaep"
  /\ Caught(read.result) = Caught(TagFailure)

\* The extent of C13: the missing-entry failure differs from the other two,
\* which are the same OperationError.
MissingKeyDistinguishable ==
  read.done =>
    /\ read.result.at = "lookup" => Caught(read.result) # "OperationError"
    /\ read.result.at \in {"rsa-oaep", "aes-gcm"} =>
         Caught(read.result) = "OperationError"

\* The wrapped-key value the reading caller passes to decryptMessage.
PassedKeys == JsOr(wire.encryptedKeys, wire.encryptedKey)

\* The last read handled a string as the wrapped key whatever the identity,
\* and an object by the entry of the identity.
ShapeSelectedByType ==
  read.done =>
    IF PassedKeys.type = "string"
      THEN /\ read.result.at # "lookup"
           /\ \A u \in UserIds :
                SelectEncryptedKey(PassedKeys, u) = Returned(PassedKeys.str)
      ELSE /\ PassedKeys.type = "object"
           /\ IF read.userId \in DOMAIN PassedKeys.map
                THEN /\ SelectEncryptedKey(PassedKeys, read.userId)
                          = Returned(PassedKeys.map[read.userId])
                     /\ read.result.at # "lookup"
                ELSE read.result.at = "lookup"

\* C14: On read, the envelope shape is selected purely by the runtime type
\* of the wrapped-key field: at every read, a string is used as the wrapped
\* key with the identity ignored, and an object is looked up by identity.
ShapeByType == [][read' # read => ShapeSelectedByType']_vars

\* C14, a legacy string read without an identity, and decrypted.
LegacyReadWithoutIdentity ==
  /\ read.done
  /\ PassedKeys.type = "string"
  /\ read.userId = NoUser
  /\ read.result.ok

(***************************************************************************)
(* Properties of the read path of ChatProvider, checked under ReadSpec.    *)
(***************************************************************************)
\* The rows of the entries displayed.
Msgs(list) == [i \in DOMAIN list |-> list[i].msg]

IsSuffix(s, t) ==
  Len(s) <= Len(t) /\ \A i \in DOMAIN s : s[i] = t[Len(t) - Len(s) + i]

\* The entry displays its row: the decrypted text when the row decrypts for
\* the signed-in user, the placeholder when it fails.
ShownAsRead(entry) ==
  LET result == DecryptRow(gcmLog, oaepLog, entry.msg, PrivateKey(SignedInUser),
                           SignedInUser)
  IN /\ result.ok => entry.decryptedContent = result.value
     /\ ~result.ok => entry.decryptedContent = DecryptionFailed

PlainTextNotReportedAsFailure ==
  \A i \in DOMAIN shown.list :
    shown.list[i].msg.content.kind = "text" =>
      shown.list[i].decryptedContent # DecryptionFailed

\* C12, a plain-text row and an envelope whose ciphertext was altered,
\* displayed alike.
PlainTextShownAsFailure ==
  \E i, j \in DOMAIN shown.list :
    /\ shown.list[i].msg.content.kind = "text"
    /\ shown.list[j].msg.content.kind = "json"
    /\ "encryptedContent" \in DOMAIN shown.list[j].msg.content.value
    /\ shown.list[i].decryptedContent = shown.list[j].decryptedContent

(***************************************************************************)
(* Properties of the file functions and of handleFileUpload, checked       *)
(* under FileSpec.                                                         *)
(***************************************************************************)
\* The reader has the blob, the key string and the iv string as returned.
FileAsReturned ==
  /\ file.wireKey = file.key
  /\ file.wireIv = file.iv
  /\ file.wireBlob = file.encryptedBlob

\* The reader has the blob as returned, and a key string and an iv string
\* that decode to the bytes of those returned.
FileBytesAsReturned ==
  /\ base64ToArrayBuffer(file.wireKey) = base64ToArrayBuffer(file.key)
  /\ base64ToArrayBuffer(file.wireIv) = base64ToArrayBuffer(file.iv)
  /\ file.wireBlob = file.encryptedBlob

\* C16: File round-trip: decryptFile applied to the encryptedBlob, key and
\* iv returned by encryptFile(b) returns exactly b; with a key, iv or blob
\* that differs from the returned ones decryptFile fails.
FileRoundTrip ==
  file.stage = "read" =>
    IF FileAsReturned THEN file.result = Returned(file.bytes)
    ELSE ~file.result.ok

\* C16 as it holds: decryptFile returns exactly b when the blob is the one
\* returned and the key and iv strings decode to the bytes of the ones
\* returned, and fails otherwise.
FileRoundTripUpToBase64 ==
  file.stage = "read" =>
    IF FileBytesAsReturned THEN file.result = Returned(file.bytes)
    ELSE ~file.result.ok

\* C16, a key string altered to one that decodes to other bytes, rejected.
AlteredFileKeyRejected ==
  /\ file.stage = "read"
  /\ file.altered = "key"
  /\ ~FileBytesAsReturned
  /\ file.result.error = "OperationError"

\* C16, a key string that differs from the one returned and still decrypts.
AlteredFileKeyDecrypts ==
  /\ file.stage = "read"
  /\ file.wireKey # file.key
  /\ file.result = Returned(file.bytes)

\* The string sub occurs in the string s.
Contains(s, sub) ==
  \E i \in 0..(Len(s) - Len(sub)) : SubSeq(s, i + 1, i + Len(sub)) = sub

\* The strings of a stored envelope, which the server reads in the clear.
ClearStrings(envelope) ==
  {envelope.encryptedContent, envelope.iv}
    \cup {envelope.encryptedKeys.map[u] : u \in DOMAIN envelope.encryptedKeys.map}

\* The row holds an envelope whose content is an AES-GCM ciphertext of the
\* payload with the file key and iv, and whose wrapped keys are RSA-OAEP
\* ciphertexts.
RowIsCiphertext(row) ==
  /\ row.content.kind = "json"
  /\ DOMAIN row.content.value = {"encryptedContent", "encryptedKeys", "iv"}
  /\ \E e \in gcmLog :
       /\ e.ct = base64ToArrayBuffer(row.content.value.encryptedContent).value
       /\ e.pt = TextEncode(PayloadText(file.key, file.iv))
  /\ \A u \in DOMAIN row.content.value.encryptedKeys.map :
       \E o \in oaepLog :
         o.ct = base64ToArrayBuffer(row.content.value.encryptedKeys.map[u]).value

\* C17: The server never sees plaintext: every object of the attachments
\* bucket is an AES-GCM ciphertext, every row of the message store holds
\* ciphertext, and the file key and iv returned by encryptFile occur in no
\* string stored in the clear, only in the plaintext the message encrypts.
ServerSeesCiphertextOnly ==
  /\ \A b \in blobs :
       /\ \E e \in gcmLog : e.ct = b.body /\ e.pt = file.bytes
       /\ ~Contains(b.body, base64ToArrayBuffer(file.key).value)
  /\ \A i \in DOMAIN messages :
       /\ RowIsCiphertext(messages[i])
       /\ \A s \in ClearStrings(messages[i].content.value) :
            ~Contains(s, file.key) /\ ~Contains(s, file.iv)

\* C17, a file uploaded and its message stored.
FileMessageStored ==
  /\ file.bytes # <<>>
  /\ blobs # {}
  /\ messages # <<>>
  /\ sent.recipientIds = {SignedInUser, "bob"}
  /\ DOMAIN sent.publicKeys = {SignedInUser, "bob"}

(***************************************************************************)
(* Properties of key initialisation, checked under KeySpec.                *)
(***************************************************************************)
\* The public keys this device has generated so far, exported.
GeneratedPublicKeys ==
  {exportKey(GeneratedPair(n).publicKey) : n \in 1..keys.generated}

\* C18: A private key never leaves the owning device: no profile holds
\* private-key material, the profile of the signed-in user holds nothing,
\* the public key of the earlier session or an exported public key this
\* device generated, and every stored message holds an envelope only.
PrivateKeyStaysLocal ==
  /\ \A u \in Users : profiles[u].kind = "jwk" => profiles[u].type = "public"
  /\ profiles[SignedInUser] \in
       {NullKey, exportKey(EarlierPair.publicKey)} \cup GeneratedPublicKeys
  /\ \A i \in DOMAIN messages :
       /\ messages[i].content.kind = "json"
       /\ DOMAIN messages[i].content.value = {"encryptedContent", "encryptedKeys", "iv"}

\* C18, a pair generated, its private half stored locally, its public half
\* published, and a message sent.
KeyPublishedAndMessageSent ==
  /\ keys.published > 0
  /\ keys.priv = exportKey(keys.keyPair.privateKey)
  /\ profiles[SignedInUser] = exportKey(keys.keyPair.publicKey)
  /\ profiles[SignedInUser] \in GeneratedPublicKeys
  /\ messages # <<>>

\* C19: A key pair is created once per identity: over any sequence of
\* initKeys runs for the same identity, without a reset of the keys, at
\* most one key generation and one profile publication take place.
OneKeyPairPerIdentity ==
  ~keys.reset => keys.generated <= 1 /\ keys.published <= 1

\* C19, two runs of the same page load that both generated and published a
\* pair, the profile holding another public key than the pair in use.
TwoPairsGenerated ==
  /\ keys.reloads = 0
  /\ keys.generated = 2
  /\ keys.published = 2
  /\ profiles[SignedInUser] \in GeneratedPublicKeys
  /\ profiles[SignedInUser] # exportKey(keys.keyPair.publicKey)

\* The extent of C19: a run generates only when it did not find both items.
GeneratesOnlyWhenNotStored ==
  \A r \in Runs :
    keys.run[r].pc \in {"generate", "storePrivate", "storePublic", "publish"} =>
      ~StoredKeysFound(keys.run[r].storedPrivateKey, keys.run[r].storedPublicKey)

\* C20: Key-generation, export and import failures during identity
\* initialisation are propagated to the caller of initKeys: the promise of
\* a run in which a step failed is rejected.
InitFailuresPropagated ==
  \A r \in Runs : keys.run[r].failed # "" => keys.run[r].promise = "rejected"

\* C20, a failed import of the stored keys after which initKeys has
\* resolved and the application has no key pair.
SilentlyWithoutKeyPair ==
  /\ keys.keyPair = NoKeyPair
  /\ \A r \in Runs : keys.run[r].pc \in {"idle", "done"}
  /\ \E r \in Runs :
       /\ keys.run[r].failed = "import"
       /\ keys.run[r].promise = "resolved"

(***************************************************************************)
(* Properties of sending and of the keys in use, checked under KeySpec     *)
(* and SendSpec.                                                           *)
(***************************************************************************)
\* C21: The sender is always a recipient of its own message: every envelope
\* that sendMessage inserts contains a wrapped-key entry for the sending
\* user's identity.
SenderIsRecipient ==
  \A i \in DOMAIN messages :
    messages[i].sender_id \in DOMAIN messages[i].content.value.encryptedKeys.map

\* C21, a message sent with a key pair in use and stored without an entry
\* for its sender, whose profile holds no key.
SentWithoutOwnEntry ==
  /\ keys.keyPair # NoKeyPair
  /\ profiles[SignedInUser] = NullKey
  /\ messages # <<>>
  /\ messages[1].sender_id = SignedInUser
  /\ SignedInUser \notin DOMAIN messages[1].content.value.encryptedKeys.map

\* No run of initKeys is suspended, one has completed and none has failed.
RunsCompleted ==
  /\ \A r \in Runs : keys.run[r].pc \in {"idle", "done"} /\ keys.run[r].failed = ""
  /\ \E r \in Runs : keys.run[r].pc = "done"

\* C23: Key consistency: after any interleaving of initKeys runs for the
\* same user has completed, the private key and the public key persisted
\* locally, the in-memory keyPair and the public key published in the
\* profile belong to one and the same key pair.
KeyConsistency ==
  RunsCompleted =>
    /\ keys.priv = exportKey(keys.keyPair.privateKey)
    /\ keys.pub = exportKey(keys.keyPair.publicKey)
    /\ keys.keyPair.privateKey.pair = keys.keyPair.publicKey.pair
    /\ profiles[SignedInUser] = keys.pub

\* C23, two completed runs of one page load that left the private key of
\* one pair and the public key of another in localStorage.
MixedPairStored ==
  /\ RunsCompleted
  /\ keys.reloads = 0
  /\ keys.priv.kind = "jwk"
  /\ keys.pub.kind = "jwk"
  /\ keys.priv.pair # keys.pub.pair

\* C25: sendMessage either inserts exactly one message record or fails with
\* an error: whenever it has returned normally, one message is stored.
SendInsertsOrFails ==
  sent.outcome \in {"returned", "inserted"} => Len(messages) = 1

\* C25, a send that returned normally after a query gave no data, with
\* nothing stored.
ReturnedWithoutInsert ==
  /\ sent.outcome = "returned"
  /\ sent.error = ""
  /\ messages = <<>>


(***************************************************************************)
(* Sign-up.  SignUpPage holds step, isLoading, error, username, password,  *)
(* confirmPassword and recoveryKey; the username can be edited while the   *)
(* identity step is shown, and handleIdentitySubmit validates it.          *)
(***************************************************************************)
MinUsernameLen == 3
MaxUsernameLen == 30
Underscore == 95

IsAsciiLetter(c) == c \in 65..90 \/ c \in 97..122
IsAsciiDigit(c) == c \in 48..57

\* /^[a-zA-Z][a-zA-Z0-9_]*$/.test(username)
UsernamePattern(username) ==
  /\ Len(username) >= 1
  /\ IsAsciiLetter(username[1])
  /\ \A i \in 2..Len(username) :
       IsAsciiLetter(username[i]) \/ IsAsciiDigit(username[i]) \/ username[i] = Underscore

validateUsername(username) ==
  IF username = <<>>
    THEN [valid |-> FALSE, error |-> "Username is required"]
  ELSE IF Len(username) < MinUsernameLen
    THEN [valid |-> FALSE, error |-> "Username must be at least 3 characters"]
  ELSE IF Len(username) > MaxUsernameLen
    THEN [valid |-> FALSE, error |-> "Username must be 30 characters or less"]
  ELSE IF ~UsernamePattern(username)
    THEN [valid |-> FALSE,
          error |-> "Username must start with a letter and contain only letters, numbers, and underscores"]
  ELSE [valid |-> TRUE, error |-> ""]

\* The usernames typed: a head over a letter, a digit, the underscore and a
\* hyphen, and a last character over these and an upper-case letter, around
\* a run of letters that brings the length next to the upper limit.
MaxHeadLen == 2
UsernameChars == {97, 53, Underscore, 45}
Heads == UNION {[1..n -> UsernameChars] : n \in 0..MaxHeadLen}
Tails == {<<>>} \cup {<<c>> : c \in UsernameChars \cup {90}}
FillLens == {0, MaxUsernameLen - MaxHeadLen - 1, MaxUsernameLen - MaxHeadLen}
Fill(n) == SubSeq([i \in 1..n |-> 97], 1, n)
Usernames == {h \o Fill(n) \o t : h \in Heads, n \in FillLens, t \in Tails}

SetUsername(username) ==
  /\ signup.step = "identity"
  /\ signup' = [signup EXCEPT !.username = username]
  /\ UNCHANGED <<cryptoVars, chatVars, clientVars, keys, session, live, contacts>>

HandleIdentitySubmit ==
  /\ signup.step = "identity"
  /\ \E validation \in {validateUsername(signup.username)} :
       signup' = IF ~validation.valid
                   THEN [signup EXCEPT !.error = IF validation.error # ""
                                                   THEN validation.error
                                                   ELSE "Invalid username"]
                   ELSE [signup EXCEPT !.error = "", !.step = "password"]
  /\ UNCHANGED <<cryptoVars, chatVars, clientVars, keys, session, live, contacts>>

\* The Back button of the password step.
BackToIdentity ==
  /\ signup.step = "password"
  /\ signup' = [signup EXCEPT !.step = "identity"]
  /\ UNCHANGED <<cryptoVars, chatVars, clientVars, keys, session, live, contacts>>

UsernameInit ==
  /\ CryptoIdle
  /\ profiles = [u \in Users |-> NullKey]
  /\ participants = {}
  /\ messages = <<>>
  /\ sent = NotSent
  /\ ClientIdle

UsernameNext ==
  \/ \E username \in Usernames : SetUsername(username)
  \/ HandleIdentitySubmit
  \/ BackToIdentity

UsernameSpec == UsernameInit /\ [][UsernameNext]_vars

\* The usernames the comment of validateUsername admits: 3 to 30
\* characters, only alphanumeric characters and underscores, not starting
\* with a number.
DocumentedUsername(username) ==
  /\ Len(username) >= MinUsernameLen
  /\ Len(username) <= MaxUsernameLen
  /\ \A i \in 1..Len(username) :
       IsAsciiLetter(username[i]) \/ IsAsciiDigit(username[i]) \/ username[i] = Underscore
  /\ ~IsAsciiDigit(username[1])

\* C22: validateUsername returns valid exactly for the strings of 3 to 30
\* characters that contain only alphanumeric characters and underscores and
\* do not start with a number, and rejects every other string with an
\* error.
UsernameContract ==
  /\ validateUsername(signup.username).valid <=> DocumentedUsername(signup.username)
  /\ ~validateUsername(signup.username).valid
       => validateUsername(signup.username).error # ""

LeadingUnderscoreRejected ==
  /\ signup.step = "identity"
  /\ signup.username = <<Underscore, 97, 97>>
  /\ DocumentedUsername(signup.username)
  /\ signup.error =
       "Username must start with a letter and contain only letters, numbers, and underscores"

(***************************************************************************)
(* The password and recovery steps of SignUpPage.  handlePasswordSubmit    *)
(* validates the password and generates the recovery key; the              *)
(* RecoveryKeyDisplay mounted for the recovery step enables its confirm    *)
(* button once the key was copied or downloaded; handleRecoveryConfirm     *)
(* issues supabase.auth.signUp and is suspended until the response.        *)
(***************************************************************************)
MinPasswordLen == 8
LongPasswordLen == 12
MinRequirementsMet == 3
SpecialChars ==
  {33, 64, 35, 36, 37, 94, 38, 42, 40, 41, 95, 43, 45, 61, 91, 93, 123, 125, 59, 39,
   58, 34, 92, 124, 44, 46, 60, 62, 47, 63}

\* The requirements met, by id.
checkPasswordRequirements(password) ==
  [length |-> Len(password) >= LongPasswordLen,
   lowercase |-> \E i \in 1..Len(password) : password[i] \in 97..122,
   uppercase |-> \E i \in 1..Len(password) : password[i] \in 65..90,
   number |-> \E i \in 1..Len(password) : IsAsciiDigit(password[i]),
   special |-> \E i \in 1..Len(password) : password[i] \in SpecialChars]

validatePassword(password) ==
  IF password = <<>>
    THEN [valid |-> FALSE, error |-> "Password is required"]
  ELSE IF Len(password) < MinPasswordLen
    THEN [valid |-> FALSE, error |-> "Password must be at least 8 characters"]
  ELSE IF Cardinality({id \in DOMAIN checkPasswordRequirements(password) :
                         checkPasswordRequirements(password)[id]}) < MinRequirementsMet
    THEN [valid |-> FALSE, error |-> "Password must meet at least 3 requirements"]
  ELSE [valid |-> TRUE, error |-> ""]

\* "ABCDEFGHJKLMNPQRSTUVWXYZ23456789"
RecoveryChars ==
  <<65, 66, 67, 68, 69, 70, 71, 72, 74, 75, 76, 77, 78, 80, 81, 82, 83, 84, 85, 86,
    87, 88, 89, 90, 50, 51, 52, 53, 54, 55, 56, 57>>
Segments == 5
CharsPerSegment == 4

\* The k-th value getSecureRandomInt(max) returns on random stream rnd.
getSecureRandomInt(rnd, k, max) == (rnd * k + rnd - 1) % max

RecoverySegment(rnd, i) ==
  SubSeq([j \in 1..CharsPerSegment |->
            RecoveryChars[getSecureRandomInt(rnd, i * CharsPerSegment + j,
                                             Len(RecoveryChars)) + 1]],
         1, CharsPerSegment)

RECURSIVE JoinSegments(_, _)
JoinSegments(rnd, i) ==
  IF i = Segments - 1 THEN RecoverySegment(rnd, i)
  ELSE RecoverySegment(rnd, i) \o <<45>> \o JoinSegments(rnd, i + 1)

generateRecoveryKey(rnd) == JoinSegments(rnd, 0)

\* The hexadecimal SHA-256 digest of the UTF-8 bytes of the key, an ideal
\* hash of these bytes.
hashRecoveryKey(key) == [digest |-> "SHA-256", of |-> TextEncode(key)]

\* username.toLowerCase() followed by "@haven.anonymous"
usernameToPseudoEmail(username) ==
  SubSeq([i \in 1..Len(username) |->
            IF username[i] \in 65..90 THEN username[i] + 32 ELSE username[i]],
         1, Len(username))
    \o <<64, 104, 97, 118, 101, 110, 46, 97, 110, 111, 110, 121, 109, 111, 117, 115>>

\* The usernames and passwords typed: "ab" and "Abc"; the empty password,
\* "abcdefgh" and "Abcdefg1".
SignUpUsernames == {<<97, 98>>, <<65, 98, 99>>}
SignUpPasswords ==
  {<<>>, <<97, 98, 99, 100, 101, 102, 103, 104>>, <<65, 98, 99, 100, 101, 102, 103, 49>>}
MaxRequests == 2

signupRest == <<cryptoVars, chatVars, clientVars, keys, session, live, contacts>>

SetPassword(password) ==
  /\ signup.step = "password"
  /\ signup' = [signup EXCEPT !.password = password, !.error = ""]
  /\ UNCHANGED signupRest

SetConfirmPassword(password) ==
  /\ signup.step = "password"
  /\ signup' = [signup EXCEPT !.confirmPassword = password, !.error = ""]
  /\ UNCHANGED signupRest

\* With the recovery step a RecoveryKeyDisplay is mounted, nothing copied
\* and nothing saved.
HandlePasswordSubmit(rnd) ==
  /\ signup.step = "password"
  /\ \E passwordValidation \in {validatePassword(signup.password)} :
       signup' =
         IF ~passwordValidation.valid
           THEN [signup EXCEPT !.error = IF passwordValidation.error # ""
                                           THEN passwordValidation.error
                                           ELSE "Invalid password"]
         ELSE IF signup.password # signup.confirmPassword
           THEN [signup EXCEPT !.error = "Passwords do not match"]
         ELSE [signup EXCEPT !.error = "", !.recoveryKey = generateRecoveryKey(rnd),
                             !.step = "recovery", !.copied = FALSE, !.saved = FALSE]
  /\ UNCHANGED signupRest

\* kept: the recovery keys written to the clipboard or to a file.
CopyToClipboard(ok) ==
  /\ signup.step = "recovery"
  /\ signup' = IF ok THEN [signup EXCEPT !.copied = TRUE,
                                         !.kept = @ \cup {signup.recoveryKey}]
               ELSE signup
  /\ UNCHANGED signupRest

\* setTimeout(() => setCopied(false), 3000)
CopiedTimeout ==
  /\ signup.step = "recovery"
  /\ signup.copied
  /\ signup' = [signup EXCEPT !.copied = FALSE]
  /\ UNCHANGED signupRest

DownloadKey ==
  /\ signup.step = "recovery"
  /\ signup' = [signup EXCEPT !.saved = TRUE, !.kept = @ \cup {signup.recoveryKey}]
  /\ UNCHANGED signupRest

\* A confirm button that is never disabled.
alwaysConfirm == TRUE

canConfirm == signup.copied \/ signup.saved

\* The click on the confirm button, up to the call of signUp.
HandleRecoveryConfirm ==
  /\ signup.step = "recovery"
  /\ canConfirm
  /\ Len(signup.requests) < MaxRequests
  /\ signup' = [signup EXCEPT
       !.isLoading = TRUE, !.error = "",
       !.requests = Append(@, [email |-> usernameToPseudoEmail(signup.username),
                               password |-> signup.password,
                               username |-> signup.username,
                               recovery_key_hash |-> hashRecoveryKey(signup.recoveryKey),
                               state |-> "pending"])]
  /\ UNCHANGED signupRest

Registered(email) ==
  \E i \in DOMAIN signup.requests :
    signup.requests[i].state = "created" /\ signup.requests[i].email = email

SignUpOutcomes == {"created", "already registered", "error", "no user", "thrown"}

\* The rest of handleRecoveryConfirm, once signUp has answered request i.
SignUpResponse(i, outcome) ==
  /\ signup.requests[i].state = "pending"
  /\ outcome = "created" => ~Registered(signup.requests[i].email)
  /\ signup' = [signup EXCEPT
       !.requests[i].state = outcome,
       !.isLoading = FALSE,
       !.error = CASE outcome = "already registered"
                        -> "This username is already taken. Please choose another."
                   [] outcome = "error" -> "signUpError.message"
                   [] outcome = "thrown"
                        -> "An unexpected error occurred. Please try again."
                   [] OTHER -> @,
       !.step = CASE outcome = "already registered" -> "identity"
                  [] outcome = "created" -> "complete"
                  [] OTHER -> @]
  /\ UNCHANGED signupRest

SignUpNext ==
  \/ \E username \in SignUpUsernames : SetUsername(username)
  \/ HandleIdentitySubmit
  \/ BackToIdentity
  \/ \E password \in SignUpPasswords : SetPassword(password)
  \/ \E password \in SignUpPasswords : SetConfirmPassword(password)
  \/ \E rnd \in RandomStreams : HandlePasswordSubmit(rnd)
  \/ \E ok \in BOOLEAN : CopyToClipboard(ok)
  \/ CopiedTimeout
  \/ DownloadKey
  \/ HandleRecoveryConfirm
  \/ \E i \in DOMAIN signup.requests, outcome \in SignUpOutcomes : SignUpResponse(i, outcome)

SignUpSpec == UsernameInit /\ [][SignUpNext]_vars

RequestIssued == Len(signup'.requests) > Len(signup.requests)
ReachesComplete == signup.step # "complete" /\ signup'.step = "complete"

\* C30: the sign-up request is issued only after the username passed
\* validateUsername, the password passed validatePassword and equals its
\* confirmation, and the recovery key displayed was copied or downloaded;
\* the hash submitted is the hash of the key displayed; and the flow
\* reaches the step complete only with a request answered by a created
\* account.
SignUpGating ==
  [][/\ RequestIssued =>
          /\ validateUsername(signup.username).valid
          /\ validatePassword(signup.password).valid
          /\ signup.password = signup.confirmPassword
          /\ signup.recoveryKey \in signup.kept
          /\ signup'.requests[Len(signup'.requests)] =
               [email |-> usernameToPseudoEmail(signup.username),
                password |-> signup.password,
                username |-> signup.username,
                recovery_key_hash |-> hashRecoveryKey(signup.recoveryKey),
                state |-> "pending"]
     /\ ReachesComplete =>
          \E i \in DOMAIN signup.requests :
            /\ signup.requests[i].state = "pending"
            /\ signup'.requests[i].state = "created"]_vars

SignedUpAfterRetry ==
  /\ signup.step = "complete"
  /\ Len(signup.requests) = 2
  /\ signup.requests[1].state = "error"
  /\ signup.requests[2].state = "created"
  /\ ~signup.copied
  /\ signup.saved

(***************************************************************************)
(* The session.  ChatProvider is mounted once, below SessionProvider, and  *)
(* keeps keyPair and activeConversation while the user of the session      *)
(* changes: a sign-out makes user undefined, a sign-in makes it the user   *)
(* signed in.  Each change of user runs initKeys and the messages effect;  *)
(* each setKeyPair and each setActiveConversation runs the messages        *)
(* effect.  The stages of key generation are those of KeySpec, taken here  *)
(* in one step.                                                            *)
(***************************************************************************)
SessionUsers == {"alice", "bob"}
SignedOut == "none"

PairFor(u) == [privateKey |-> PrivateKey(u), publicKey |-> PublicKey(u)]

\* localStorage of the browser: haven_priv_<id> and haven_pub_<id>.
SessionItems(u) ==
  {[priv |-> NullKey, pub |-> NullKey],
   [priv |-> exportKey(PrivateKey(u)), pub |-> exportKey(PublicKey(u))],
   [priv |-> MalformedKey, pub |-> exportKey(PublicKey(u))]}

\* The messages effect: with an active conversation and a keyPair,
\* fetchMessages starts and holds the keyPair and the user of this render.
MessagesEffect(s) ==
  IF s.active /\ s.keyPair # NoKeyPair
    THEN [s EXCEPT !.fetches = @ \cup {[privateKey |-> s.keyPair.privateKey,
                                         userId |-> IF s.user = SignedOut
                                                      THEN NoUser ELSE s.user]}]
    ELSE s

\* initKeys up to its first await, for the user of this render.
InitKeysEffect(s) ==
  IF s.user = SignedOut THEN s
  ELSE [s EXCEPT !.runs = @ \cup
          {[user |-> s.user,
            pc |-> IF StoredKeysFound(s.storage[s.user].priv, s.storage[s.user].pub)
                     THEN "import" ELSE "generate",
            storedPrivateKey |-> s.storage[s.user].priv,
            storedPublicKey |-> s.storage[s.user].pub]}]

\* used: the last decryptMessage or sendMessage that ran.
NothingUsed == [op |-> "none"]

SessionIdle(storage) ==
  [user |-> SignedOut, keyPair |-> NoKeyPair, storage |-> storage, runs |-> {},
   active |-> FALSE, fetches |-> {}, used |-> NothingUsed]

sessionRest == <<cryptoVars, chatVars, clientVars, keys, signup, live, contacts>>

SessionSignIn(u) ==
  /\ session.user = SignedOut
  /\ session' = MessagesEffect(InitKeysEffect([session EXCEPT !.user = u]))
  /\ UNCHANGED sessionRest

SessionSignOut ==
  /\ session.user # SignedOut
  /\ session' = MessagesEffect(InitKeysEffect([session EXCEPT !.user = SignedOut]))
  /\ UNCHANGED sessionRest

SessionImportKeys(run) ==
  /\ run.pc = "import"
  /\ \E imported \in {ImportStored(run.storedPrivateKey, run.storedPublicKey)} :
       session' =
         IF imported.ok
           THEN MessagesEffect([session EXCEPT !.keyPair = imported.value,
                                               !.runs = @ \ {run}])
           ELSE [session EXCEPT !.runs = @ \ {run}]
  /\ UNCHANGED sessionRest

SessionGenerateKeys(run) ==
  /\ run.pc = "generate"
  /\ session' = MessagesEffect([session EXCEPT
       !.keyPair = PairFor(run.user),
       !.storage[run.user] = [priv |-> exportKey(PrivateKey(run.user)),
                              pub |-> exportKey(PublicKey(run.user))],
       !.runs = @ \ {run}])
  /\ UNCHANGED sessionRest

SessionSetActiveConversation ==
  /\ session.user # SignedOut
  /\ ~session.active
  /\ session' = MessagesEffect([session EXCEPT !.active = TRUE])
  /\ UNCHANGED sessionRest

\* fetchMessages after its query: decryptMessage runs on each row with the
\* key and the user id the fetch holds.
SessionFetchDecrypt(fetch, rows) ==
  /\ session' = [session EXCEPT
       !.fetches = @ \ {fetch},
       !.used = IF rows
                  THEN [op |-> "decryptMessage", user |-> session.user,
                        privateKey |-> fetch.privateKey, userId |-> fetch.userId]
                  ELSE @]
  /\ UNCHANGED sessionRest

\* sendMessage past its first line.
SessionSendMessage ==
  /\ session.active
  /\ session.keyPair # NoKeyPair
  /\ session.user # SignedOut
  /\ session' = [session EXCEPT
       !.used = [op |-> "sendMessage", user |-> session.user,
                 privateKey |-> session.keyPair.privateKey, userId |-> session.user]]
  /\ UNCHANGED sessionRest

SessionInit ==
  /\ CryptoIdle
  /\ profiles = [u \in Users |-> NullKey]
  /\ participants = {}
  /\ messages = <<>>
  /\ sent = NotSent
  /\ shown = NothingShown
  /\ blobs = {}
  /\ file = NoFile
  /\ keys = NoKeys
  /\ signup = NoSignUp
  /\ live = NoLive
  /\ contacts = NoContacts
  /\ \E storage \in [SessionUsers -> UNION {SessionItems(u) : u \in SessionUsers}] :
       /\ \A u \in SessionUsers : storage[u] \in SessionItems(u)
       /\ session = SessionIdle(storage)

SessionNext ==
  \/ \E u \in SessionUsers : SessionSignIn(u)
  \/ SessionSignOut
  \/ \E run \in session.runs : SessionImportKeys(run)
  \/ \E run \in session.runs : SessionGenerateKeys(run)
  \/ SessionSetActiveConversation
  \/ \E fetch \in session.fetches, rows \in BOOLEAN : SessionFetchDecrypt(fetch, rows)
  \/ SessionSendMessage

SessionSpec == SessionInit /\ [][SessionNext]_vars

\* C24: every decryptMessage and every sendMessage runs with the key pair
\* of the user signed in at that moment; none runs with the pair of a user
\* who signed out or was replaced.
KeyPairOfSignedInUser ==
  session.used.op # "none" =>
    /\ session.used.user # SignedOut
    /\ session.used.privateKey = PrivateKey(session.used.user)

DecryptedWithKeyOfPreviousUser ==
  /\ session.user = "bob"
  /\ session.storage["bob"].priv = MalformedKey
  /\ session.runs = {}
  /\ session.keyPair = PairFor("alice")
  /\ session.used = [op |-> "decryptMessage", user |-> "bob",
                      privateKey |-> PrivateKey("alice"), userId |-> "bob"]

(***************************************************************************)
(* The messages effect of ChatProvider, with a keyPair present.  Each      *)
(* setActiveConversation runs the cleanup of the previous effect           *)
(* (removeChannel) and the effect for the new conversation: fetchMessages  *)
(* starts its query and the channel of the conversation is subscribed.     *)
(* Nothing cancels a fetchMessages or an INSERT handler that is suspended  *)
(* at an await, and the list is not cleared.  The decryption of a row is   *)
(* that of ReadSpec; here a row is its id and its conversation.            *)
(***************************************************************************)
MaxLiveRows == 2
MaxEffects == 2
Conversations == {"c1", "c2"}
NoConversation == "none"

LiveIdle ==
  [rows |-> <<>>, active |-> NoConversation, effects |-> 0, loaded |-> FALSE,
   fetches |-> {}, handlers |-> {}, list |-> <<>>]

liveRest == <<cryptoVars, chatVars, clientVars, keys, signup, session, contacts>>

\* .eq('conversation_id', id).order('created_at')
RowsOf(rows, conversation) == SelectSeq(rows, LAMBDA row : row.conversation_id = conversation)

LiveSetActiveConversation(conversation) ==
  /\ conversation # live.active
  /\ live.effects < MaxEffects
  /\ live' = [live EXCEPT
       !.active = conversation,
       !.effects = @ + 1,
       !.loaded = FALSE,
       !.fetches = @ \cup {[effect |-> live.effects + 1, conversation |-> conversation,
                            stage |-> "query", data |-> <<>>]}]
  /\ UNCHANGED liveRest

\* A client stores a message; the channel subscribed with the filter of
\* the active conversation delivers it to the INSERT handler, which is
\* suspended at its decryptMessage.
InsertRow(conversation) ==
  /\ Len(live.rows) < MaxLiveRows
  /\ \E newMsg \in {[id |-> Len(live.rows) + 1, conversation_id |-> conversation]} :
       live' = [live EXCEPT
         !.rows = Append(@, newMsg),
         !.handlers = IF conversation = live.active THEN @ \cup {newMsg} ELSE @]
  /\ UNCHANGED liveRest

\* The server answers the query of a fetchMessages.
QueryAnswered(fetch, queryOk) ==
  /\ fetch.stage = "query"
  /\ live' = [live EXCEPT
       !.fetches = (@ \ {fetch}) \cup
          (IF queryOk
             THEN {[fetch EXCEPT !.stage = "decrypt",
                                 !.data = RowsOf(live.rows, fetch.conversation)]}
             ELSE {})]
  /\ UNCHANGED liveRest

\* setMessages(decryptedMessages)
FetchApplied(fetch) ==
  /\ fetch.stage = "decrypt"
  /\ live' = [live EXCEPT
       !.fetches = @ \ {fetch},
       !.list = fetch.data,
       !.loaded = @ \/ fetch.effect = live.effects]
  /\ UNCHANGED liveRest

\* setMessages(prev => [...prev, newMsg])
HandlerAppends(newMsg) ==
  /\ live' = [live EXCEPT !.handlers = @ \ {newMsg}, !.list = Append(@, newMsg)]
  /\ UNCHANGED liveRest

LiveInit ==
  /\ CryptoIdle
  /\ profiles = [u \in Users |-> NullKey]
  /\ participants = {}
  /\ messages = <<>>
  /\ sent = NotSent
  /\ shown = NothingShown
  /\ blobs = {}
  /\ file = NoFile
  /\ keys = NoKeys
  /\ signup = NoSignUp
  /\ session = NoSession
  /\ contacts = NoContacts
  /\ live = LiveIdle

LiveNext ==
  \/ \E conversation \in Conversations : LiveSetActiveConversation(conversation)
  \/ \E conversation \in Conversations : InsertRow(conversation)
  \/ \E fetch \in live.fetches, queryOk \in BOOLEAN : QueryAnswered(fetch, queryOk)
  \/ \E fetch \in live.fetches : FetchApplied(fetch)
  \/ \E newMsg \in live.handlers : HandlerAppends(newMsg)

LiveSpec == LiveInit /\ [][LiveNext]_vars

Listed(list) == {list[i] : i \in DOMAIN list}
Settled == live.fetches = {} /\ live.handlers = {}

\* C26: every stored message appears at most once, by id, in the list
\* displayed, under any interleaving of the fetchMessages query and the
\* INSERT notifications of the active conversation.
NoDuplicates ==
  \A i, j \in DOMAIN live.list : live.list[i].id = live.list[j].id => i = j

ShownTwice ==
  /\ Settled
  /\ live.effects = 1
  /\ Len(live.rows) = 1
  /\ live.list = <<live.rows[1], live.rows[1]>>

\* C27: a message of the active conversation that is in the list displayed
\* stays there while the conversation stays active; applying the result of
\* fetchMessages does not remove a message the INSERT handler appended.
NoLoss ==
  [][live'.active = live.active
       => \A msg \in Listed(live.list) :
            msg.conversation_id = live.active => msg \in Listed(live'.list)]_vars

LostAfterFetch ==
  /\ Settled
  /\ live.effects = 1
  /\ live.loaded
  /\ Len(live.rows) = 1
  /\ live.rows[1].conversation_id = live.active
  /\ live.list = <<>>

\* C28: once the load for the active conversation has completed, the list
\* displayed holds only messages of that conversation.
OnlyActiveConversation ==
  live.loaded => \A msg \in Listed(live.list) : msg.conversation_id = live.active

PreviousConversationShown ==
  /\ Settled
  /\ live.loaded
  /\ live.active = "c2"
  /\ live.list # <<>>
  /\ \A msg \in Listed(live.list) : msg.conversation_id = "c1"

(***************************************************************************)
(* Contacts.  public.contacts holds one row per (user_id, contact_id),     *)
(* with the policies of the schema: a user inserts rows of their own,      *)
(* updates rows they own or are the target of, deletes rows they own.      *)
(* useContacts offers sendContactRequest and, for each pending incoming    *)
(* request, respondToRequest, which is suspended at each of its awaits.    *)
(* No row is deleted here, so a row is identified by its pair.             *)
(***************************************************************************)
ContactsIdle == [rows |-> {}, calls |-> {}, done |-> {}]

contactsRest == <<cryptoVars, chatVars, clientVars, keys, signup, session, live>>

Row(user_id, contact_id, status) ==
  [user_id |-> user_id, contact_id |-> contact_id, status |-> status]

\* UNIQUE(user_id, contact_id) and CHECK (user_id != contact_id)
InsertAllowed(rows, row) ==
  /\ row.user_id # row.contact_id
  /\ ~\E r \in rows : r.user_id = row.user_id /\ r.contact_id = row.contact_id

\* insert(row): the table afterwards; a violated constraint leaves it as
\* it was and is reported as an error.
InsertContact(rows, row) == IF InsertAllowed(rows, row) THEN rows \cup {row} ELSE rows

\* update({status: 'accepted'}).eq('id', requestId) by user u
AcceptContact(rows, request, u) ==
  {IF r.user_id = request[1] /\ r.contact_id = request[2] /\ u \in {r.user_id, r.contact_id}
     THEN [r EXCEPT !.status = "accepted"]
     ELSE r : r \in rows}

\* delete().eq('id', requestId) by user u
DeleteContact(rows, request, u) ==
  {r \in rows : ~(r.user_id = request[1] /\ r.contact_id = request[2] /\ u = r.user_id)}

SendContactRequest(u, target, insertOk) ==
  /\ u # target
  /\ contacts' = [contacts EXCEPT
       !.rows = IF insertOk THEN InsertContact(@, Row(u, target, "pending")) ELSE @]
  /\ UNCHANGED contactsRest

\* respondToRequest up to its second await (accept) or to its end (ignore),
\* called by u on a pending incoming request.
RespondToRequest(u, request, accept, updateOk) ==
  /\ Row(request[1], request[2], "pending") \in contacts.rows
  /\ request[2] = u
  /\ ~\E response \in contacts.calls : response.user = u
  /\ contacts' =
       IF ~updateOk THEN contacts
       ELSE IF accept
         THEN [contacts EXCEPT
                 !.rows = AcceptContact(@, request, u),
                 !.calls = @ \cup {[user |-> u, request |-> request, pc |-> "select",
                                    req |-> <<>>]}]
         ELSE [contacts EXCEPT !.rows = DeleteContact(@, request, u)]
  /\ UNCHANGED contactsRest

\* The select of the request: without a row read, respondToRequest ends.
RespondSelect(response, selectOk) ==
  /\ response.pc = "select"
  /\ \E found \in {Row(response.request[1], response.request[2], "accepted") \in contacts.rows
                     /\ selectOk} :
       contacts' = [contacts EXCEPT
         !.calls = (@ \ {response}) \cup
            (IF found THEN {[response EXCEPT !.pc = "insert", !.req = <<response.request[1]>>]}
             ELSE {}),
         !.done = IF found THEN @ ELSE @ \cup {response.request}]
  /\ UNCHANGED contactsRest

\* The insert of the reverse row; its error is not read.
RespondInsert(response, insertOk) ==
  /\ response.pc = "insert"
  /\ contacts' = [contacts EXCEPT
       !.rows = IF insertOk
                  THEN InsertContact(@, Row(response.user, response.req[1], "accepted"))
                  ELSE @,
       !.calls = @ \ {response},
       !.done = @ \cup {response.request}]
  /\ UNCHANGED contactsRest

ContactInit ==
  /\ CryptoIdle
  /\ profiles = [u \in Users |-> NullKey]
  /\ participants = {}
  /\ messages = <<>>
  /\ sent = NotSent
  /\ shown = NothingShown
  /\ blobs = {}
  /\ file = NoFile
  /\ keys = NoKeys
  /\ signup = NoSignUp
  /\ session = NoSession
  /\ live = NoLive
  /\ contacts = ContactsIdle

ContactNext ==
  \/ \E u \in Users, target \in Users, insertOk \in BOOLEAN :
       SendContactRequest(u, target, insertOk)
  \/ \E u \in Users, request \in Users \X Users, accept \in BOOLEAN, updateOk \in BOOLEAN :
       RespondToRequest(u, request, accept, updateOk)
  \/ \E response \in contacts.calls, selectOk \in BOOLEAN : RespondSelect(response, selectOk)
  \/ \E response \in contacts.calls, insertOk \in BOOLEAN : RespondInsert(response, insertOk)

ContactSpec == ContactInit /\ [][ContactNext]_vars

\* C29: after respondToRequest(requestId, true) has completed without
\* error for a pending request from A to B, the row A->B and the row B->A
\* both exist with status accepted, whatever rows existed before.
AcceptanceBidirectional ==
  \A request \in contacts.done :
    /\ Row(request[1], request[2], "accepted") \in contacts.rows
    /\ Row(request[2], request[1], "accepted") \in contacts.rows

ReverseRequestLeftPending ==
  /\ contacts.calls = {}
  /\ contacts.done = {<<"alice", "bob">>}
  /\ contacts.rows = {Row("alice", "bob", "accepted"), Row("bob", "alice", "pending")}
=============================================================================
